---------------------------- MODULE Spec2Model ----------------------------
(***************************************************************************)
(* A model of the expression engine of dnorhoj/expression-rs: the value    *)
(* and type model (src/src/schema.rs), the AST (src/src/expression.rs),    *)
(* the validator and executor (src/src/engine.rs), the parser              *)
(* (src/src/parser.rs) and the serializer (src/src/serialize.rs).          *)
(*                                                                         *)
(* Texts are sequences of characters; a character is a one-symbol string,  *)
(* and the control characters have the names BS, FF, LF, CR, TAB, NUL.     *)
(***************************************************************************)
EXTENDS Integers, Sequences, FiniteSets, TLC

VARIABLES
    schema,     \* Engine.schema: the registered names -> Field
    target,     \* the target record: name -> what the user's extractor returns
    expr,       \* the Expression handed to validate / execute
    vres,       \* the result of the last Engine::validate(expr), or NotRun
    xres,       \* the last Engine::execute(expr, target): its result and trace, or NoRun
    text,       \* the input text of ExpressionParser::parse
    parsed,     \* the result of parse(text), or NotRun
    serialized, \* Expression::serialize() of the parsed AST, or NotRun
    reparsed,   \* the result of parse(serialized), or NotRun
    trailing,   \* what is written after text for a second call of parse
    tparsed,    \* the result of parse(text followed by trailing), or NotRun
    builder,    \* the SchemaBuilder: whether build() is still to come, and its fields
    calls,      \* the registrations made on the builder, in order
    extracted,  \* the last call of a field's extractor: the name and the Value, or NotRun
    answers     \* the execute calls answered so far: (AST, target, result), in order

vars ==
    <<schema, target, expr, vres, xres, text, parsed, serialized, reparsed,
      trailing, tparsed, builder, calls, extracted, answers>>

engineVars == <<schema, target, expr, vres, xres>>
parserVars == <<text, parsed, serialized, reparsed, trailing, tparsed>>
builderVars == <<builder, calls, extracted>>

NotRun == <<"NotRun">>

-----------------------------------------------------------------------------
(* schema.rs: Type and Value                                               *)

Type ==
    {"String", "Regex", "Number", "Boolean", "Raw", "DateTime",
     "StringList", "NumberList", "BooleanList", "RawList", "DateTimeList",
     "Null"}

Operator == {"Eq", "Ne", "Gt", "Gte", "Lt", "Lte", "In"}

\* Value: a tagged payload.  Payloads: String and Regex a sequence of
\* characters, Number an f64 (F64Fin / F64Inf / F64NaN), Boolean a BOOLEAN,
\* Raw a sequence of bytes, DateTime an instant [secs, nanos] in UTC, the
\* lists a sequence of the element payloads, Null the empty tuple.
Value(t, payload) == [type |-> t, val |-> payload]

ValueNull == Value("Null", <<>>)

get_type(value) == value.type

is_null(value) == value.type = "Null"

Type_is_null(t) == t = "Null"

\* f64: a finite decimal (-1)^neg * m * 10^e with m not divisible by 10
\* (m = 0 has e = 0), an infinity, or NaN.
F64Fin(neg, m, e) == [cls |-> "fin", neg |-> neg, m |-> m, e |-> e]
F64Inf(neg) == [cls |-> "inf", neg |-> neg, m |-> 0, e |-> 0]
F64NaN == [cls |-> "nan", neg |-> FALSE, m |-> 0, e |-> 0]

Num(n) == IF n < 0 THEN F64Fin(TRUE, -n, 0) ELSE F64Fin(FALSE, n, 0)

RECURSIVE Pow10(_)
Pow10(n) == IF n <= 0 THEN 1 ELSE 10 * Pow10(n - 1)

Min(a, b) == IF a <= b THEN a ELSE b

\* The signed magnitude of a finite f64 at the scale 10^k (k <= its exponent).
F64Scaled(a, k) == (IF a.neg THEN -1 ELSE 1) * a.m * Pow10(a.e - k)

\* IEEE-754 comparison (PartialOrd for f64): "lt", "eq", "gt", or "un"
\* (unordered) when either side is NaN.  -0 == +0.
F64Cmp(a, b) ==
    IF a.cls = "nan" \/ b.cls = "nan" THEN "un"
    ELSE IF a.cls = "inf" \/ b.cls = "inf" THEN
        LET ra == IF a.cls = "inf" THEN (IF a.neg THEN -1 ELSE 1) ELSE 0
            rb == IF b.cls = "inf" THEN (IF b.neg THEN -1 ELSE 1) ELSE 0
        IN  IF ra < rb THEN "lt" ELSE IF ra > rb THEN "gt" ELSE "eq"
    ELSE
        LET k == Min(a.e, b.e)
            x == F64Scaled(a, k)
            y == F64Scaled(b, k)
        IN  IF x < y THEN "lt" ELSE IF x > y THEN "gt" ELSE "eq"

F64Eq(a, b) == F64Cmp(a, b) = "eq"

\* Ord for DateTime<Utc>: the instants compared.
DateTimeCmp(a, b) ==
    IF a.secs < b.secs THEN "lt"
    ELSE IF a.secs > b.secs THEN "gt"
    ELSE IF a.nanos < b.nanos THEN "lt"
    ELSE IF a.nanos > b.nanos THEN "gt"
    ELSE "eq"

\* Vec<f64> == Vec<f64>: same length and elementwise f64 equality.
F64ListEq(a, b) ==
    /\ Len(a) = Len(b)
    /\ \A i \in 1..Len(a) : F64Eq(a[i], b[i])

-----------------------------------------------------------------------------
(* expression.rs: Expression, Literal, Operation                           *)

\* Literal: a tagged pair, LiteralValue(Value) or LiteralField(String).
LiteralValue(value) == <<"LiteralValue", value>>
LiteralField(name) == <<"LiteralField", name>>

Operation(lhs, op, rhs) ==
    [kind |-> "Operation", lhs |-> lhs, op |-> op, rhs |-> rhs]

And(subexpressions) == [kind |-> "And", subs |-> subexpressions]
Or(subexpressions) == [kind |-> "Or", subs |-> subexpressions]
Not(subexpression) == [kind |-> "Not", subs |-> <<subexpression>>]

get_subexpressions(e) == e.subs
get_subexpression(e) == e.subs[1]

fmt_static(op) ==
    CASE op = "Eq" -> <<"=", "=">>
      [] op = "Ne" -> <<"!", "=">>
      [] op = "Gt" -> <<">">>
      [] op = "Gte" -> <<">", "=">>
      [] op = "Lt" -> <<"<">>
      [] op = "Lte" -> <<"<", "=">>
      [] op = "In" -> <<"I", "N">>

-----------------------------------------------------------------------------
(* schema.rs: Field, SchemaBuilder, Schema                                 *)

\* The types a SchemaBuilder can register (one with_*_field per type).
BuilderType ==
    {"String", "Number", "Boolean", "Raw", "DateTime",
     "StringList", "NumberList", "BooleanList", "RawList", "DateTimeList"}

\* Option<T>: None is the empty sequence, Some(v) the sequence <<v>>.
None == <<>>
Some(v) == <<v>>

\* Field::new(field_type, field_extractor)
Field(field_type, extractor) ==
    [field_type |-> field_type, field_extractor |-> extractor]

\* The closure of field_extractor_builder!: it captures $enum_name and the
\* user's extractor.  A user's extractor is named by the key of the target
\* record that holds what it returns on that target (an Option).
wrapped_extractor(enum_name, extractor) == <<"wrapped", enum_name, extractor>>

\* extractor(target).map_or_else(|| Value::Null, |val| Value::$enum_name(val))
call_wrapped(wrapped, tgt) ==
    LET got == tgt[wrapped[3]]
    IN  IF got = None THEN ValueNull ELSE Value(wrapped[2], got[1])

\* The extractor with_sub_field composes: it captures the parent extractor
\* (a closure Fn(&T) -> Option<&U>, named by the key of the target that
\* holds what it returns) and the extractor of a field of the sub-schema.
sub_extractor(parent_extractor, child) == <<"sub", parent_extractor, child>>

RECURSIVE call_extractor(_, _)
\* The composed extractor: it resolves the parent on the outer target and,
\* if present, delegates to the child extractor; otherwise it yields Null.
call_sub(sub, tgt) ==
    LET parent == tgt[sub[2]]
    IN  IF parent = None THEN ValueNull ELSE call_extractor(sub[3], parent[1])

\* The call of a boxed closure: Box<dyn Fn(&T) -> Value>
call_extractor(extractor, tgt) ==
    IF extractor[1] = "wrapped" THEN call_wrapped(extractor, tgt)
    ELSE call_sub(extractor, tgt)

\* (*field_extractor)(target)
field_extractor(field, tgt) == call_extractor(field.field_extractor, tgt)

\* Schema::get_field: Some(field) or None
get_field(sch, field_name) ==
    IF field_name \in DOMAIN sch THEN Some(sch[field_name]) ELSE None

\* SchemaBuilder::new(): a builder with no field.  A builder is open until
\* build() consumes it.
SchemaBuilder_new == [open |-> TRUE, fields |-> <<>>]

\* A variant of insert that keeps the entry a key already has.
insert_keep_first(fields, key, value) ==
    [k \in DOMAIN fields \cup {key} |-> IF k \in DOMAIN fields THEN fields[k] ELSE value]

\* HashMap::insert(key, value): the entry of key is added or replaced.
insert(fields, key, value) ==
    [k \in DOMAIN fields \cup {key} |-> IF k = key THEN value ELSE fields[k]]

\* A variant of field_extractor_builder! that registers every field with
\* the type tag String.
field_extractor_builder_string_tag(self, enum_name, field_name, extractor) ==
    [self EXCEPT !.fields =
        insert(@, field_name, Field("String", wrapped_extractor(enum_name, extractor)))]

\* field_extractor_builder!($fn_name, $type_, $enum_name): the method
\* with_*_field(self, field_name, extractor) of the type $enum_name.
field_extractor_builder(self, enum_name, field_name, extractor) ==
    [self EXCEPT !.fields =
        insert(@, field_name, Field(enum_name, wrapped_extractor(enum_name, extractor)))]

\* The key of a flattened field: the parent's name, a colon, the name of
\* the field in the sub-schema.
sub_field_name(field_name, sub_name) == field_name \o ":" \o sub_name

\* The Field a sub-schema's field is flattened to.
sub_field(sub, parent_extractor) ==
    Field(sub.field_type, sub_extractor(parent_extractor, sub.field_extractor))

RECURSIVE insert_sub_fields(_, _, _, _, _)
\* One insertion per field of the sub-schema.
insert_sub_fields(fields, field_name, sub_schema, parent_extractor, todo) ==
    IF todo = {} THEN fields
    ELSE LET sub_name == CHOOSE n \in todo : TRUE
         IN  insert_sub_fields(
                insert(fields, sub_field_name(field_name, sub_name),
                       sub_field(sub_schema[sub_name], parent_extractor)),
                field_name, sub_schema, parent_extractor, todo \ {sub_name})

\* SchemaBuilder::with_sub_field(self, name, sub_schema, parent_extractor):
\* the fields of the sub-schema, flattened into the parent under "name:".
with_sub_field(self, field_name, sub_schema, parent_extractor) ==
    [self EXCEPT !.fields =
        insert_sub_fields(@, field_name, sub_schema, parent_extractor, DOMAIN sub_schema)]

\* SchemaBuilder::build: Schema { fields: self.fields }
build(self) == self.fields

-----------------------------------------------------------------------------
(* misc.rs and the library calls the executor makes                        *)

\* list.windows(n): the contiguous runs of n elements.
windows(list, n) == { SubSeq(list, i, i + n - 1) : i \in 1..(Len(list) - n + 1) }

\* A variant of is_sublist that looks for list inside sublist.
is_sublist_swapped(list, sublist) ==
    IF Len(list) = 0 THEN TRUE
    ELSE IF Len(list) > Len(sublist) THEN FALSE
    ELSE \E window \in windows(sublist, Len(list)) : window = list

\* misc.rs is_sublist(list, sublist)
is_sublist(list, sublist) ==
    IF Len(sublist) = 0 THEN TRUE
    ELSE IF Len(sublist) > Len(list) THEN FALSE
    ELSE \E window \in windows(list, Len(sublist)) : window = sublist

\* str::contains(&self, pat: &String): pat occurs in self.
str_contains(haystack, pat) ==
    \E i \in 1..(Len(haystack) - Len(pat) + 1) :
        SubSeq(haystack, i, i + Len(pat) - 1) = pat

\* Vec<T>::contains for element types compared structurally.
vec_contains(items, x) == \E i \in 1..Len(items) : items[i] = x

\* Regex::new(pattern) of the regex crate, for patterns made of literal
\* characters, "." and groups "(" ")": the pattern compiles exactly when
\* its parentheses balance.
RECURSIVE ParenDepthOk(_, _, _)
ParenDepthOk(pattern, i, depth) ==
    IF i > Len(pattern) THEN depth = 0
    ELSE IF pattern[i] = "(" THEN ParenDepthOk(pattern, i + 1, depth + 1)
    ELSE IF pattern[i] = ")" THEN depth > 0 /\ ParenDepthOk(pattern, i + 1, depth - 1)
    ELSE ParenDepthOk(pattern, i + 1, depth)

Regex_new_ok(pattern) == ParenDepthOk(pattern, 1, 0)

\* The atoms of a compiled pattern, groups being transparent.
RegexAtoms(pattern) == SelectSeq(pattern, LAMBDA c : c \notin {"(", ")"})

\* Regex::is_match(haystack): an unanchored search; "." matches any
\* character but a line feed.
Regex_is_match(pattern, haystack) ==
    LET atoms == RegexAtoms(pattern)
    IN  \E i \in 1..(Len(haystack) - Len(atoms) + 1) :
            \A j \in 1..Len(atoms) :
                \/ atoms[j] = "." /\ haystack[i + j - 1] # "LF"
                \/ atoms[j] # "." /\ atoms[j] = haystack[i + j - 1]

-----------------------------------------------------------------------------
(* engine.rs: Engine::validate                                             *)

Ok == <<"Ok">>
OkBool(b) == <<"Ok", b>>
InvalidFieldError(name) == <<"InvalidFieldError", name>>
InvalidOperatorError(lhs, op, rhs) == <<"InvalidOperatorError", lhs, op, rhs>>
InvalidDateRangeError == <<"InvalidDateRangeError">>
\* Option::unwrap / Result::unwrap on a failure: the thread panics and
\* execute returns nothing.
Panic == <<"Panic">>

IsOk(r) == r[1] = "Ok"

\* Engine::extract_literal_type: Ok(type) or Err(InvalidFieldError)
extract_literal_type(sch, literal) ==
    IF literal[1] = "LiteralValue" THEN <<"Ok", get_type(literal[2])>>
    ELSE LET f == get_field(sch, literal[2])
         IN  IF f = None THEN InvalidFieldError(literal[2])
             ELSE <<"Ok", f[1].field_type>>

SameListOps == {"Eq", "Ne"}

\* The match of validate_operation on (lhs, rhs) for two non-null types.
validate_types(lhs, op, rhs) ==
    LET operator_error == InvalidOperatorError(lhs, op, rhs)
        allow(ops) == IF op \in ops THEN Ok ELSE operator_error
    IN  CASE lhs = "String" ->
              (CASE rhs = "String" -> allow({"Eq", "Ne", "In"})
                 [] rhs = "StringList" -> allow({"In"})
                 [] OTHER -> operator_error)
          [] lhs = "Regex" ->
              (CASE rhs = "String" -> allow({"In"})
                 [] rhs = "StringList" -> allow({"In"})
                 [] OTHER -> operator_error)
          [] lhs = "Number" ->
              (CASE rhs = "Number" -> allow({"Eq", "Ne", "Gt", "Gte", "Lt", "Lte"})
                 [] rhs = "NumberList" -> allow({"In"})
                 [] OTHER -> operator_error)
          [] lhs = "Boolean" ->
              (CASE rhs = "Boolean" -> allow({"Eq", "Ne"})
                 [] rhs = "BooleanList" -> allow({"In"})
                 [] OTHER -> operator_error)
          [] lhs = "Raw" ->
              (CASE rhs = "Raw" -> allow({"Eq", "Ne", "In"})
                 [] rhs = "RawList" -> allow({"In"})
                 [] OTHER -> operator_error)
          [] lhs = "DateTime" ->
              (CASE rhs = "DateTime" -> allow({"Eq", "Ne", "Gt", "Gte", "Lt", "Lte"})
                 [] rhs = "DateTimeList" -> allow({"In"})
                 [] OTHER -> operator_error)
          [] lhs = "StringList" ->
              (CASE rhs = "StringList" -> allow(SameListOps)
                 [] OTHER -> operator_error)
          [] lhs = "NumberList" ->
              (CASE rhs = "NumberList" -> allow(SameListOps)
                 [] OTHER -> operator_error)
          [] lhs = "BooleanList" ->
              (CASE rhs = "BooleanList" -> allow(SameListOps)
                 [] OTHER -> operator_error)
          [] lhs = "RawList" ->
              (CASE rhs = "RawList" -> allow(SameListOps)
                 [] OTHER -> operator_error)
          [] lhs = "DateTimeList" ->
              (CASE rhs = "DateTimeList" -> allow(SameListOps)
                 [] OTHER -> operator_error)
          [] lhs = "Null" -> Ok

\* A variant of validate_null that accepts every operator on a Null side.
validate_null_any_op(lhs, op, rhs) == Ok

\* The null check that precedes the match of validate_operation.
validate_null(lhs, op, rhs) ==
    IF op \in {"Eq", "Ne", "In"} THEN Ok ELSE InvalidOperatorError(lhs, op, rhs)

\* A variant of validate_operation that resolves the rhs before the lhs.
validate_operation_rhs_first(sch, operation) ==
    LET r == extract_literal_type(sch, operation.rhs)
    IN  IF ~IsOk(r) THEN r
        ELSE LET l == extract_literal_type(sch, operation.lhs)
             IN  IF ~IsOk(l) THEN l
                 ELSE IF Type_is_null(r[2]) \/ Type_is_null(l[2])
                      THEN validate_null(l[2], operation.op, r[2])
                      ELSE validate_types(l[2], operation.op, r[2])

\* Engine::validate_operation
validate_operation(sch, operation) ==
    LET l == extract_literal_type(sch, operation.lhs)
    IN  IF ~IsOk(l) THEN l
        ELSE LET r == extract_literal_type(sch, operation.rhs)
             IN  IF ~IsOk(r) THEN r
                 ELSE LET lhs == l[2]
                          rhs == r[2]
                      IN  IF Type_is_null(rhs) \/ Type_is_null(lhs)
                          THEN validate_null(lhs, operation.op, rhs)
                          ELSE validate_types(lhs, operation.op, rhs)

RECURSIVE validate(_, _)
\* iter().try_for_each(|i| self.validate(i)): the first Err, else Ok
RECURSIVE validate_each(_, _, _)
validate_each(sch, subs, i) ==
    IF i > Len(subs) THEN Ok
    ELSE LET r == validate(sch, subs[i])
         IN  IF ~IsOk(r) THEN r ELSE validate_each(sch, subs, i + 1)

\* Engine::validate
validate(sch, expression) ==
    CASE expression.kind = "And" -> validate_each(sch, get_subexpressions(expression), 1)
      [] expression.kind = "Or" -> validate_each(sch, get_subexpressions(expression), 1)
      [] expression.kind = "Not" -> validate(sch, get_subexpression(expression))
      [] expression.kind = "Operation" -> validate_operation(sch, expression)

-----------------------------------------------------------------------------
(* engine.rs: Engine::execute                                              *)

\* Engine::extract_literal: Ok(value) or Err(InvalidFieldError)
extract_literal(sch, literal, tgt) ==
    IF literal[1] = "LiteralValue" THEN <<"Ok", literal[2]>>
    ELSE LET f == get_field(sch, literal[2])
         IN  IF f = None THEN InvalidFieldError(literal[2])
             ELSE <<"Ok", field_extractor(f[1], tgt)>>

\* A variant of execute_null whose branches for one Null side repeat the
\* branch for two.
execute_null_copied_branch(lhs, op, rhs) == OkBool(op = "Eq")

\* A variant of execute_null that tests In like Eq when both sides are Null.
execute_null_in_as_eq(lhs, op, rhs) ==
    IF is_null(lhs) THEN
        IF is_null(rhs) THEN OkBool(op \in {"Eq", "In"})
        ELSE OkBool(op = "Ne")
    ELSE OkBool(op = "Ne")

\* A variant of execute_null without the branch for a Null rhs alone.
execute_null_lhs_only(lhs, op, rhs) ==
    IF is_null(lhs) THEN
        IF is_null(rhs) THEN OkBool(op = "Eq")
        ELSE OkBool(op = "Ne")
    ELSE OkBool(FALSE)

\* The null branches of execute_operation (at least one side is Null).
execute_null(lhs, op, rhs) ==
    IF is_null(lhs) THEN
        IF is_null(rhs) THEN OkBool(op = "Eq")
        ELSE OkBool(op = "Ne")
    ELSE OkBool(op = "Ne")

\* A variant of execute_date_range whose upper bound is inclusive.
execute_date_range_closed(lhv, rhv) ==
    IF Len(rhv) # 2 THEN InvalidDateRangeError
    ELSE LET from == rhv[1]
             until == rhv[2]
         IN  OkBool(/\ DateTimeCmp(lhv, from) \in {"gt", "eq"}
                    /\ DateTimeCmp(lhv, until) \in {"lt", "eq"})

\* DateTime IN DateTimeList
execute_date_range(lhv, rhv) ==
    IF Len(rhv) # 2 THEN InvalidDateRangeError
    ELSE LET from == rhv[1]
             until == rhv[2]
         IN  OkBool(/\ DateTimeCmp(lhv, from) \in {"gt", "eq"}
                    /\ DateTimeCmp(lhv, until) = "lt")

\* Regex IN String: Regex::new(lhv).unwrap(), then is_match
execute_regex_string(lhv, rhv) ==
    IF ~Regex_new_ok(lhv) THEN Panic
    ELSE OkBool(Regex_is_match(lhv, rhv))

\* A variant of the executor without the arm Regex IN StringList.
execute_regex_list_missing(lhv, rhv) ==
    InvalidOperatorError("Regex", "In", "StringList")

\* Regex IN StringList: Regex::new(lhv).unwrap(), then any is_match
execute_regex_list(lhv, rhv) ==
    IF ~Regex_new_ok(lhv) THEN Panic
    ELSE OkBool(\E i \in 1..Len(rhv) : Regex_is_match(lhv, rhv[i]))

\* The match of execute_operation on two non-null values.
execute_values(lhs, op, rhs) ==
    LET operator_error == InvalidOperatorError(get_type(lhs), op, get_type(rhs))
        lhv == lhs.val
        rhv == rhs.val
        lt == lhs.type
        rt == rhs.type
        eq_ne(same) ==
            CASE op = "Eq" -> OkBool(same)
              [] op = "Ne" -> OkBool(~same)
              [] OTHER -> operator_error
        ordered(cmp) ==
            CASE op = "Eq" -> OkBool(cmp = "eq")
              [] op = "Ne" -> OkBool(cmp # "eq")
              [] op = "Gt" -> OkBool(cmp = "gt")
              [] op = "Gte" -> OkBool(cmp \in {"gt", "eq"})
              [] op = "Lt" -> OkBool(cmp = "lt")
              [] op = "Lte" -> OkBool(cmp \in {"lt", "eq"})
              [] OTHER -> operator_error
    IN  CASE lt = "String" ->
              (CASE rt = "String" ->
                      (CASE op = "Eq" -> OkBool(lhv = rhv)
                         [] op = "Ne" -> OkBool(lhv # rhv)
                         [] op = "In" -> OkBool(str_contains(rhv, lhv))
                         [] OTHER -> operator_error)
                 [] rt = "StringList" ->
                      (IF op = "In" THEN OkBool(vec_contains(rhv, lhv))
                       ELSE operator_error)
                 [] OTHER -> operator_error)
          [] lt = "Regex" ->
              (CASE rt = "String" ->
                      (IF op = "In" THEN execute_regex_string(lhv, rhv)
                       ELSE operator_error)
                 [] rt = "StringList" ->
                      (IF op = "In" THEN execute_regex_list(lhv, rhv)
                       ELSE operator_error)
                 [] OTHER -> operator_error)
          [] lt = "Number" ->
              (CASE rt = "Number" -> ordered(F64Cmp(lhv, rhv))
                 [] rt = "NumberList" ->
                      (IF op = "In"
                       THEN OkBool(\E i \in 1..Len(rhv) : F64Eq(rhv[i], lhv))
                       ELSE operator_error)
                 [] OTHER -> operator_error)
          [] lt = "Boolean" ->
              (CASE rt = "Boolean" -> eq_ne(lhv = rhv)
                 [] rt = "BooleanList" ->
                      (IF op = "In" THEN OkBool(vec_contains(rhv, lhv))
                       ELSE operator_error)
                 [] OTHER -> operator_error)
          [] lt = "Raw" ->
              (CASE rt = "Raw" ->
                      (CASE op = "Eq" -> OkBool(lhv = rhv)
                         [] op = "Ne" -> OkBool(lhv # rhv)
                         [] op = "In" -> OkBool(is_sublist(rhv, lhv))
                         [] OTHER -> operator_error)
                 [] rt = "RawList" ->
                      (IF op = "In" THEN OkBool(\E i \in 1..Len(rhv) : lhv = rhv[i])
                       ELSE operator_error)
                 [] OTHER -> operator_error)
          [] lt = "DateTime" ->
              (CASE rt = "DateTime" -> ordered(DateTimeCmp(lhv, rhv))
                 [] rt = "DateTimeList" ->
                      (IF op = "In" THEN execute_date_range(lhv, rhv)
                       ELSE operator_error)
                 [] OTHER -> operator_error)
          [] lt = "StringList" ->
              (CASE rt = "StringList" -> eq_ne(lhv = rhv)
                 [] OTHER -> operator_error)
          [] lt = "NumberList" ->
              (CASE rt = "NumberList" -> eq_ne(F64ListEq(lhv, rhv))
                 [] OTHER -> operator_error)
          [] lt = "BooleanList" ->
              (CASE rt = "BooleanList" -> eq_ne(lhv = rhv)
                 [] OTHER -> operator_error)
          [] lt = "RawList" ->
              (CASE rt = "RawList" -> eq_ne(lhv = rhv)
                 [] OTHER -> operator_error)
          [] lt = "DateTimeList" ->
              (CASE rt = "DateTimeList" -> eq_ne(lhv = rhv)
                 [] OTHER -> operator_error)
          [] lt = "Null" -> Panic   \* unreachable!()

\* A variant of execute_operation that tests the length of a DateTimeList
\* under In before it looks for a Null operand.
execute_operation_range_first(sch, operation, tgt) ==
    LET l == extract_literal(sch, operation.lhs, tgt)
    IN  IF ~IsOk(l) THEN l
        ELSE LET r == extract_literal(sch, operation.rhs, tgt)
             IN  IF ~IsOk(r) THEN r
                 ELSE LET lhs == l[2]
                          rhs == r[2]
                      IN  IF operation.op = "In" /\ rhs.type = "DateTimeList" /\ Len(rhs.val) # 2
                          THEN InvalidDateRangeError
                          ELSE IF is_null(lhs) \/ is_null(rhs)
                          THEN execute_null(lhs, operation.op, rhs)
                          ELSE execute_values(lhs, operation.op, rhs)

\* Engine::execute_operation
execute_operation(sch, operation, tgt) ==
    LET l == extract_literal(sch, operation.lhs, tgt)
    IN  IF ~IsOk(l) THEN l
        ELSE LET r == extract_literal(sch, operation.rhs, tgt)
             IN  IF ~IsOk(r) THEN r
                 ELSE LET lhs == l[2]
                          rhs == r[2]
                      IN  IF is_null(lhs) \/ is_null(rhs)
                          THEN execute_null(lhs, operation.op, rhs)
                          ELSE execute_values(lhs, operation.op, rhs)

\* A run of execute: its result and the Operations it evaluated, in order.
Run(res, ops) == [res |-> res, ops |-> ops]

\* No execute call yet.
NoRun == Run(NotRun, <<>>)

RECURSIVE execute(_, _, _)

\* A variant of execute_loop that evaluates every child before it looks at
\* the results (no short circuit).
RECURSIVE execute_loop_eager(_, _, _, _, _, _)
execute_loop_eager(sch, subs, i, tgt, stop, done) ==
    IF i > Len(subs) THEN Run(OkBool(~stop), done)
    ELSE LET r == execute(sch, subs[i], tgt)
             seen == done \o r.ops
             rest == execute_loop_eager(sch, subs, i + 1, tgt, stop, seen)
         IN  IF ~IsOk(r.res) THEN Run(r.res, rest.ops)
             ELSE IF ~IsOk(rest.res) THEN rest
             ELSE IF r.res[2] = stop THEN Run(OkBool(stop), rest.ops)
             ELSE rest

\* A variant of execute_loop that returns the stopping value when the loop
\* runs to its end.
RECURSIVE execute_loop_wrong_end(_, _, _, _, _, _)
execute_loop_wrong_end(sch, subs, i, tgt, stop, done) ==
    IF i > Len(subs) THEN Run(OkBool(stop), done)
    ELSE LET r == execute(sch, subs[i], tgt)
             seen == done \o r.ops
         IN  IF ~IsOk(r.res) THEN Run(r.res, seen)
             ELSE IF r.res[2] = stop THEN Run(OkBool(stop), seen)
             ELSE execute_loop_wrong_end(sch, subs, i + 1, tgt, stop, seen)

\* for i in and.get_subexpressions() { if !self.execute(i, target)? { return Ok(false) } }
\* return Ok(true), and the dual loop of Or: stop is the child result that
\* ends the loop (false for And, true for Or).
RECURSIVE execute_loop(_, _, _, _, _, _)
execute_loop(sch, subs, i, tgt, stop, done) ==
    IF i > Len(subs) THEN Run(OkBool(~stop), done)
    ELSE LET r == execute(sch, subs[i], tgt)
             seen == done \o r.ops
         IN  IF ~IsOk(r.res) THEN Run(r.res, seen)
             ELSE IF r.res[2] = stop THEN Run(OkBool(stop), seen)
             ELSE execute_loop(sch, subs, i + 1, tgt, stop, seen)

\* .map(|result| !result) on the child's result
execute_not(r) == IF IsOk(r.res) THEN Run(OkBool(~r.res[2]), r.ops) ELSE r

\* Engine::execute
execute(sch, expression, tgt) ==
    CASE expression.kind = "And" ->
            execute_loop(sch, get_subexpressions(expression), 1, tgt, FALSE, <<>>)
      [] expression.kind = "Or" ->
            execute_loop(sch, get_subexpressions(expression), 1, tgt, TRUE, <<>>)
      [] expression.kind = "Not" ->
            execute_not(execute(sch, get_subexpression(expression), tgt))
      [] expression.kind = "Operation" ->
            Run(execute_operation(sch, expression, tgt), <<expression>>)

-----------------------------------------------------------------------------
(* parser.rs: the pom combinators the grammar is built from                *)
(*                                                                         *)
(* A parser is applied to (input, start), start being an offset from 0; it *)
(* returns Ok(out, pos) with the offset after what it consumed, or an      *)
(* error of pom's kinds Incomplete, Mismatch, Conversion or Custom with    *)
(* its position (-1 for Incomplete, which carries none).                   *)

POk(out, pos) == [ok |-> TRUE, pos |-> pos, err |-> "none", out |-> out]
PErr(kind, pos) == [ok |-> FALSE, pos |-> pos, err |-> kind, out |-> <<>>]

LowerSeq ==
    <<"a", "b", "c", "d", "e", "f", "g", "h", "i", "j", "k", "l", "m", "n",
      "o", "p", "q", "r", "s", "t", "u", "v", "w", "x", "y", "z">>
UpperSeq ==
    <<"A", "B", "C", "D", "E", "F", "G", "H", "I", "J", "K", "L", "M", "N",
      "O", "P", "Q", "R", "S", "T", "U", "V", "W", "X", "Y", "Z">>

Range(q) == { q[i] : i \in 1..Len(q) }
LowerLetters == Range(LowerSeq)
UpperLetters == Range(UpperSeq)
Digits == {"0", "1", "2", "3", "4", "5", "6", "7", "8", "9"}
NonZeroDigits == Digits \ {"0"}
HexDigits == Digits \cup {"a", "b", "c", "d", "e", "f", "A", "B", "C", "D", "E", "F"}
Whitespace == {" ", "TAB", "CR", "LF"}

\* u8::to_ascii_lowercase
to_ascii_lowercase(c) ==
    IF c \in UpperLetters
    THEN LowerSeq[CHOOSE i \in 1..Len(UpperSeq) : UpperSeq[i] = c]
    ELSE c

\* u8::to_ascii_uppercase
to_ascii_uppercase(c) ==
    IF c \in LowerLetters
    THEN UpperSeq[CHOOSE i \in 1..Len(LowerSeq) : LowerSeq[i] = c]
    ELSE c

\* input.get(pos) is Some
Has(input, pos) == pos < Len(input)
\* the byte at offset pos
At(input, pos) == input[pos + 1]

\* sym(t)
sym(t, input, start) ==
    IF ~Has(input, start) THEN PErr("Incomplete", -1)
    ELSE IF At(input, start) = t THEN POk(t, start + 1)
    ELSE PErr("Mismatch", start)

\* one_of(set)
one_of(set, input, start) ==
    IF ~Has(input, start) THEN PErr("Incomplete", -1)
    ELSE IF At(input, start) \in set THEN POk(At(input, start), start + 1)
    ELSE PErr("Mismatch", start)

\* none_of(set)
none_of(set, input, start) ==
    IF ~Has(input, start) THEN PErr("Incomplete", -1)
    ELSE IF At(input, start) \notin set THEN POk(At(input, start), start + 1)
    ELSE PErr("Mismatch", start)

\* seq(tag): the mismatch is reported at the offset of the differing byte.
RECURSIVE seq_from(_, _, _, _)
seq_from(tag, input, start, index) ==
    IF index = Len(tag) THEN POk(tag, start + index)
    ELSE IF ~Has(input, start + index) THEN PErr("Incomplete", -1)
    ELSE IF tag[index + 1] # At(input, start + index) THEN PErr("Mismatch", start + index)
    ELSE seq_from(tag, input, start, index + 1)

seq(tag, input, start) == seq_from(tag, input, start, 0)

\* seq_nocase(tag): a byte matches when its lower or its upper case form is
\* the tag's byte.
RECURSIVE seq_nocase_from(_, _, _, _)
seq_nocase_from(tag, input, start, index) ==
    IF index = Len(tag) THEN POk(tag, start + index)
    ELSE IF ~Has(input, start + index) THEN PErr("Incomplete", -1)
    ELSE IF /\ tag[index + 1] # to_ascii_lowercase(At(input, start + index))
            /\ tag[index + 1] # to_ascii_uppercase(At(input, start + index))
         THEN PErr("Mismatch", start + index)
    ELSE seq_nocase_from(tag, input, start, index + 1)

seq_nocase(tag, input, start) == seq_nocase_from(tag, input, start, 0)

\* end()
end_of_input(input, start) ==
    IF Has(input, start) THEN PErr("Mismatch", start) ELSE POk(<<>>, start)

\* Parser::name: an error that is not Custom already becomes a Custom error
\* at the offset the named parser started at.
name(r, start) == IF r.ok \/ r.err = "Custom" THEN r ELSE PErr("Custom", start)

\* one_of(set).repeat(0..): the offset after the longest run of bytes of set.
RECURSIVE skip_while(_, _, _)
skip_while(set, input, pos) ==
    IF Has(input, pos) /\ At(input, pos) \in set THEN skip_while(set, input, pos + 1)
    ELSE pos

\* one_of(set).repeat(0..max): at most max bytes of set.
RECURSIVE skip_at_most(_, _, _, _)
skip_at_most(set, input, pos, max) ==
    IF max > 0 /\ Has(input, pos) /\ At(input, pos) \in set
    THEN skip_at_most(set, input, pos + 1, max - 1)
    ELSE pos

\* one_of(set).repeat(min..=max): the longest run of at most max bytes of
\* set; fewer than min is a Mismatch at the offset the repetition started at.
repeat(set, min, max, input, start) ==
    LET pos == skip_at_most(set, input, start, max)
    IN  IF pos - start < min THEN PErr("Mismatch", start)
        ELSE POk(SubSeq(input, start + 1, pos), pos)

\* The sequencing operators +, - and *: what follows is applied to the
\* result of what precedes, and an error ends the sequence.
and_then(r, Following(_)) == IF r.ok THEN Following(r) ELSE r

\* The ordered choice p | q: q is tried where p started when p fails
\* (no parser here raises Error::Expect, which alone would end a choice).
or_else(r, alternative) == IF r.ok THEN r ELSE alternative

\* p.map(f)
map(r, F(_)) == IF r.ok THEN POk(F(r.out), r.pos) ELSE r

\* p.opt(): the offset after p, or the offset p started at when p fails.
opt(r, start) == IF r.ok THEN r.pos ELSE start

\* One step of p.repeat(..): the repetition goes on after an item and ends,
\* without an error, at the first item that fails.
if_ok(r, Continue(_), ended) == IF r.ok THEN Continue(r) ELSE ended

\* let v = ..; the rest
with(v, Rest(_)) == Rest(v)

\* input[from..to]: what collect() returns.
collect(input, from, to) == SubSeq(input, from + 1, to)

\* space(): one_of(b" \t\r\n").repeat(0..).discard(); it never fails.
space(input, start) == skip_while(Whitespace, input, start)

-----------------------------------------------------------------------------
(* parser.rs: number, and the f64 conversions of the standard library      *)

DigitSeq == <<"0", "1", "2", "3", "4", "5", "6", "7", "8", "9">>

\* the value of one decimal digit
digit_value(c) == (CHOOSE i \in 1..Len(DigitSeq) : DigitSeq[i] = c) - 1

\* the value of a run of decimal digits
RECURSIVE digits_value(_)
digits_value(ds) ==
    IF ds = <<>> THEN 0
    ELSE 10 * digits_value(SubSeq(ds, 1, Len(ds) - 1)) + digit_value(ds[Len(ds)])

\* the decimal digits of a natural number
RECURSIVE nat_digits(_)
nat_digits(n) ==
    IF n < 10 THEN <<DigitSeq[n + 1]>>
    ELSE Append(nat_digits(n \div 10), DigitSeq[(n % 10) + 1])

\* n zeros
Zeros(n) == [i \in 1..n |-> "0"]

\* The f64 nearest to (-1)^neg * m * 10^e.  A decimal of a few significant
\* digits inside the normal range is represented by itself (it is the
\* shortest decimal that reads back as its nearest f64); beyond the largest
\* finite f64 (1.797...e308) the conversion yields an infinity, below the
\* smallest positive one (4.9e-324) a zero of the same sign.
RECURSIVE f64_nearest(_, _, _)
f64_nearest(neg, m, e) ==
    IF m = 0 THEN F64Fin(neg, 0, 0)
    ELSE IF m % 10 = 0 THEN f64_nearest(neg, m \div 10, e + 1)
    ELSE
        LET ds == nat_digits(m)
            top == e + Len(ds) - 1
            lead == digits_value(SubSeq(ds \o Zeros(4), 1, 4))
        IN  IF top > 308 \/ (top = 308 /\ lead > 1797)
            THEN F64Inf(neg)
            ELSE IF top < -324 THEN F64Fin(neg, 0, 0)
            ELSE F64Fin(neg, m, e)

\* The least index i >= from with s[i] in set, or Len(s) + 1.
RECURSIVE index_of(_, _, _)
index_of(set, s, from) ==
    IF from > Len(s) THEN Len(s) + 1
    ELSE IF s[from] \in set THEN from
    ELSE index_of(set, s, from + 1)

\* f64::from_str on a text of the number grammar:
\* -? digits (. digits)? ([eE] [+-]? digits)?
f64_from_str(s) ==
    LET neg == s # <<>> /\ s[1] = "-"
        body == IF neg THEN Tail(s) ELSE s
        epos == index_of({"e", "E"}, body, 1)
        mant == SubSeq(body, 1, epos - 1)
        dpos == index_of({"."}, mant, 1)
        intd == SubSeq(mant, 1, dpos - 1)
        fracd == SubSeq(mant, dpos + 1, Len(mant))
        etxt == SubSeq(body, epos + 1, Len(body))
        eneg == etxt # <<>> /\ etxt[1] = "-"
        edig == IF etxt # <<>> /\ etxt[1] \in {"+", "-"} THEN Tail(etxt) ELSE etxt
        ex == (IF eneg THEN -1 ELSE 1) * digits_value(edig)
    IN  f64_nearest(neg, digits_value(intd \o fracd), ex - Len(fracd))

\* impl Display for f64 ("{}"): the shortest decimal that reads back,
\* written positionally (never with an exponent); inf, -inf and NaN by name.
f64_display(x) ==
    IF x.cls = "nan" THEN <<"N", "a", "N">>
    ELSE IF x.cls = "inf" THEN (IF x.neg THEN <<"-">> ELSE <<>>) \o <<"i", "n", "f">>
    ELSE
        LET ds == nat_digits(x.m)
            d == Len(ds)
            body == IF x.e >= 0 THEN ds \o Zeros(x.e)
                    ELSE IF -x.e < d
                         THEN SubSeq(ds, 1, d + x.e) \o <<".">> \o SubSeq(ds, d + x.e + 1, d)
                    ELSE <<"0", ".">> \o Zeros(-x.e - d) \o ds
        IN  (IF x.neg THEN <<"-">> ELSE <<>>) \o body

\* integer: one_of(b"123456789") - one_of(b"0123456789").repeat(0..) | sym(b'0')
integer(input, start) ==
    or_else(and_then(one_of(NonZeroDigits, input, start),
                     LAMBDA first : POk(<<>>, skip_while(Digits, input, first.pos))),
            sym("0", input, start))

\* frac.opt(): sym(b'.') + one_of(b"0123456789").repeat(1..), or nothing
frac_opt(input, pos) ==
    opt(and_then(sym(".", input, pos),
                 LAMBDA dot : repeat(Digits, 1, Len(input), input, dot.pos)),
        pos)

\* exp.opt(): one_of(b"eE") + one_of(b"+-").opt() + digits.repeat(1..), or nothing
exp_opt(input, pos) ==
    opt(and_then(one_of({"e", "E"}, input, pos),
                 LAMBDA e : repeat(Digits, 1, Len(input), input,
                                   opt(one_of({"+", "-"}, input, e.pos), e.pos))),
        pos)

\* number()
number(input, start) ==
    name(and_then(integer(input, opt(sym("-", input, start), start)), LAMBDA int :
         with(exp_opt(input, frac_opt(input, int.pos)), LAMBDA last :
         POk(f64_from_str(collect(input, start, last)), last))), start)

-----------------------------------------------------------------------------
(* parser.rs: string, regex_string, raw, field                             *)

\* A run of parsed items and the offset after it (what repeat returns).
Items(out, pos) == [out |-> out, pos |-> pos]

\* special_char: the byte an escape letter stands for.
SpecialChars == {"\\", "/", "\"", "b", "f", "n", "r", "t"}

special_char(c) ==
    CASE c = "b" -> "BS"
      [] c = "f" -> "FF"
      [] c = "n" -> "LF"
      [] c = "r" -> "CR"
      [] c = "t" -> "TAB"
      [] OTHER -> c

\* (none_of(b"\\\"") | escape_sequence).repeat(0..)
RECURSIVE string_items(_, _, _)
string_items(input, pos, acc) ==
    LET plain == none_of({"\\", "\""}, input, pos)
        escape == one_of(SpecialChars, input, pos + 1)
    IN  IF plain.ok THEN string_items(input, plain.pos, Append(acc, plain.out))
        ELSE IF sym("\\", input, pos).ok /\ escape.ok
             THEN string_items(input, escape.pos, Append(acc, special_char(escape.out)))
        ELSE Items(acc, pos)

\* string(): the bytes are ASCII here, so String::from_utf8 succeeds.
string(input, start) ==
    name(and_then(sym("\"", input, start), LAMBDA open :
         with(string_items(input, open.pos, <<>>), LAMBDA items :
         and_then(sym("\"", input, items.pos), LAMBDA close :
         POk(items.out, close.pos)))), start)

\* (seq(b"\\/").map(|_| b'/') | none_of(b"/")).repeat(0..)
RECURSIVE regex_items(_, _, _)
regex_items(input, pos, acc) ==
    LET escaped == seq(<<"\\", "/">>, input, pos)
        plain == none_of({"/"}, input, pos)
    IN  IF escaped.ok THEN regex_items(input, escaped.pos, Append(acc, "/"))
        ELSE IF plain.ok THEN regex_items(input, plain.pos, Append(acc, plain.out))
        ELSE Items(acc, pos)

\* regex_string()
regex_string(input, start) ==
    name(and_then(sym("/", input, start), LAMBDA open :
         with(regex_items(input, open.pos, <<>>), LAMBDA items :
         and_then(sym("/", input, items.pos), LAMBDA close :
         POk(items.out, close.pos)))), start)

HexSeq == <<"0", "1", "2", "3", "4", "5", "6", "7", "8", "9",
            "a", "b", "c", "d", "e", "f">>

\* the value of one hexadecimal digit of either case
hex_value(c) ==
    (CHOOSE i \in 1..Len(HexSeq) : HexSeq[i] = to_ascii_lowercase(c)) - 1

\* u8::from_str_radix(&[a, b], 16)
from_str_radix(a, b) == 16 * hex_value(a) + hex_value(b)

\* (hex + hex - space()).map(from_str_radix).repeat(1..), from its first item on
RECURSIVE raw_items(_, _, _)
raw_items(input, pos, acc) ==
    LET a == one_of(HexDigits, input, pos)
        b == one_of(HexDigits, input, pos + 1)
    IN  IF a.ok /\ b.ok
        THEN raw_items(input, space(input, b.pos), Append(acc, from_str_radix(a.out, b.out)))
        ELSE Items(acc, pos)

\* raw(): both bars and every byte consume the whitespace after them; no
\* byte at all is the Mismatch of repeat(1..).
raw(input, start) ==
    name(and_then(sym("|", input, start), LAMBDA open :
         with(space(input, open.pos), LAMBDA from :
         with(raw_items(input, from, <<>>), LAMBDA items :
         IF items.out = <<>> THEN PErr("Mismatch", from)
         ELSE and_then(sym("|", input, items.pos), LAMBDA close :
              POk(items.out, space(input, close.pos)))))), start)

FieldStart == LowerLetters \cup UpperLetters \cup {"_"}
FieldRest == FieldStart \cup {":"} \cup Digits

\* field()
field(input, start) ==
    name(and_then(one_of(FieldStart, input, start), LAMBDA first :
         with(skip_while(FieldRest, input, first.pos), LAMBDA last :
         POk(collect(input, start, last), last))), start)

-----------------------------------------------------------------------------
(* parser.rs: datetime, and chrono's RFC 3339 conversions                  *)

\* A chain p1 + p2 + ... of num().repeat(n) and sym(c) parsers, each written
\* <<"num", n>> or <<"sym", c>>: the first error ends the chain.
RECURSIVE chain(_, _, _, _)
chain(parts, i, input, pos) ==
    IF i > Len(parts) THEN POk(<<>>, pos)
    ELSE
        LET r == IF parts[i][1] = "num"
                 THEN repeat(Digits, parts[i][2], parts[i][2], input, pos)
                 ELSE sym(parts[i][2], input, pos)
        IN  IF r.ok THEN chain(parts, i + 1, input, r.pos) ELSE r

\* yyyy-mm-ddThh:mm:ss
DateTimeParts ==
    << <<"num", 4>>, <<"sym", "-">>, <<"num", 2>>, <<"sym", "-">>, <<"num", 2>>,
       <<"sym", "T">>, <<"num", 2>>, <<"sym", ":">>, <<"num", 2>>, <<"sym", ":">>,
       <<"num", 2>> >>

\* hh:mm of an offset
OffsetParts == << <<"num", 2>>, <<"sym", ":">>, <<"num", 2>> >>

\* A variant of fraction_opt that takes up to 6 digits.
fraction_opt_inclusive(input, pos) ==
    opt(and_then(sym(".", input, pos), LAMBDA dot : repeat(Digits, 1, 6, input, dot.pos)),
        pos)

\* (sym(b'.') + num().repeat(1..6)).opt(): a dot and one to five digits (the
\* range 1..6 excludes its end), or nothing.
fraction_opt(input, pos) ==
    opt(and_then(sym(".", input, pos), LAMBDA dot : repeat(Digits, 1, 5, input, dot.pos)),
        pos)

\* sym(b'Z').collect() | (one_of(b"+-") + hh + sym(b':') + mm).collect()
zone(input, pos) ==
    or_else(sym("Z", input, pos),
            and_then(one_of({"+", "-"}, input, pos),
                     LAMBDA sign : chain(OffsetParts, 1, input, sign.pos)))

\* The days from 1970-01-01 to the civil date y-m-d (proleptic Gregorian).
days_from_civil(y, m, d) ==
    LET yy == IF m <= 2 THEN y - 1 ELSE y
        era == yy \div 400
        yoe == yy - era * 400
        mp == IF m > 2 THEN m - 3 ELSE m + 9
        doy == (153 * mp + 2) \div 5 + d - 1
        doe == yoe * 365 + yoe \div 4 - yoe \div 100 + doy
    IN  era * 146097 + doe - 719468

\* The civil date <<y, m, d>> of a day number.
civil_from_days(days) ==
    LET z == days + 719468
        era == z \div 146097
        doe == z - era * 146097
        yoe == (doe - doe \div 1460 + doe \div 36524 - doe \div 146096) \div 365
        doy == doe - (365 * yoe + yoe \div 4 - yoe \div 100)
        mp == (5 * doy + 2) \div 153
        d == doy - (153 * mp + 2) \div 5 + 1
        m == IF mp < 10 THEN mp + 3 ELSE mp - 9
        y == yoe + era * 400
    IN  <<IF m <= 2 THEN y + 1 ELSE y, m, d>>

is_leap_year(y) == y % 4 = 0 /\ (y % 100 # 0 \/ y % 400 = 0)

days_in_month(y, m) ==
    IF m = 2 THEN (IF is_leap_year(y) THEN 29 ELSE 28)
    ELSE IF m \in {4, 6, 9, 11} THEN 30
    ELSE 31

\* DateTime::parse_from_rfc3339(s).map(|date| date.to_utc()) on a text the
\* datetime grammar matched: the fields must form a date, a time of day and
\* an offset below a day; the instant is kept in UTC.  A second of 60 is a
\* leap second, kept as second 59 with 10^9 more nanoseconds.
parse_from_rfc3339(s) ==
    LET num(from, to) == digits_value(SubSeq(s, from, to))
        y == num(1, 4)
        mo == num(6, 7)
        d == num(9, 10)
        h == num(12, 13)
        mi == num(15, 16)
        sec == num(18, 19)
        fracd == IF s[20] = "." THEN SubSeq(s, 21, index_of({"Z", "+", "-"}, s, 21) - 1)
                 ELSE <<>>
        zpos == 20 + (IF fracd = <<>> THEN 0 ELSE Len(fracd) + 1)
        oh == IF s[zpos] = "Z" THEN 0 ELSE num(zpos + 1, zpos + 2)
        om == IF s[zpos] = "Z" THEN 0 ELSE num(zpos + 4, zpos + 5)
        offset == (IF s[zpos] = "-" THEN -1 ELSE 1) * (oh * 3600 + om * 60)
        nanos == digits_value(fracd) * Pow10(9 - Len(fracd))
        valid == /\ mo \in 1..12
                 /\ d \in 1..days_in_month(y, mo)
                 /\ h <= 23 /\ mi <= 59 /\ sec <= 60
                 /\ oh <= 23 /\ om <= 59
        secs == days_from_civil(y, mo, d) * 86400 + h * 3600 + mi * 60
                    + (IF sec = 60 THEN 59 ELSE sec) - offset
    IN  IF valid
        THEN <<"Ok", [secs |-> secs, nanos |-> nanos + (IF sec = 60 THEN 1000000000 ELSE 0)]>>
        ELSE <<"Err">>

\* datetime(): it has no name, so its errors keep their kind and position.
datetime(input, start) ==
    and_then(chain(DateTimeParts, 1, input, start), LAMBDA date :
    and_then(zone(input, fraction_opt(input, date.pos)), LAMBDA z :
    with(parse_from_rfc3339(collect(input, start, z.pos)), LAMBDA converted :
    IF converted[1] = "Ok" THEN POk(converted[2], z.pos)
    ELSE PErr("Conversion", start))))

\* n written with at least w digits, zero padded
pad(n, w) == LET ds == nat_digits(n) IN Zeros(w - Len(ds)) \o ds

\* DateTime<Utc>::to_rfc3339_opts(SecondsFormat::AutoSi, true): the UTC date
\* and time with the offset written Z; the fraction is omitted when the
\* nanoseconds are zero, else written with 3, 6 or 9 digits, the fewest that
\* are exact.
to_rfc3339_opts(dt) ==
    LET days == dt.secs \div 86400
        tod == dt.secs % 86400
        leap == dt.nanos >= 1000000000
        nanos == IF leap THEN dt.nanos - 1000000000 ELSE dt.nanos
        ymd == civil_from_days(days)
        sec == (tod % 60) + (IF leap THEN 1 ELSE 0)
        fraction ==
            IF nanos = 0 THEN <<>>
            ELSE IF nanos % 1000000 = 0 THEN <<".">> \o pad(nanos \div 1000000, 3)
            ELSE IF nanos % 1000 = 0 THEN <<".">> \o pad(nanos \div 1000, 6)
            ELSE <<".">> \o pad(nanos, 9)
    IN  pad(ymd[1], 4) \o <<"-">> \o pad(ymd[2], 2) \o <<"-">> \o pad(ymd[3], 2)
            \o <<"T">> \o pad(tod \div 3600, 2) \o <<":">> \o pad((tod % 3600) \div 60, 2)
            \o <<":">> \o pad(sec, 2) \o fraction \o <<"Z">>

-----------------------------------------------------------------------------
(* parser.rs: the lists, operator, literal, operation, and, or, not,       *)
(* expression, parser and ExpressionParser::parse                          *)

\* A variant of list_value whose last kind of list also takes the words
\* true and false as elements.
list_value_words(kind, input, start) ==
    CASE kind = "StringList" -> string(input, start)
      [] kind = "RawList" -> raw(input, start)
      [] kind = "DateTimeList" -> datetime(input, start)
      [] kind = "NumberList" ->
            or_else(number(input, start),
            or_else(map(seq_nocase(<<"t", "r", "u", "e">>, input, start), LAMBDA out : TRUE),
                    map(seq_nocase(<<"f", "a", "l", "s", "e">>, input, start), LAMBDA out : FALSE)))

\* $value_fn() of a list_parser!: the element parser of a list kind.
list_value(kind, input, start) ==
    CASE kind = "StringList" -> string(input, start)
      [] kind = "RawList" -> raw(input, start)
      [] kind = "DateTimeList" -> datetime(input, start)
      [] kind = "NumberList" -> number(input, start)

\* ((sym(b',') + space()) * $value_fn() - space()).repeat(0..)
RECURSIVE list_items(_, _, _, _)
list_items(kind, input, pos, acc) ==
    if_ok(and_then(sym(",", input, pos),
                   LAMBDA comma : list_value(kind, input, space(input, comma.pos))),
          LAMBDA value : list_items(kind, input, space(input, value.pos),
                                    Append(acc, value.out)),
          Items(acc, pos))

\* list_parser!: [ value (, value)* ] with whitespace after the bracket,
\* after every value and after every comma.
list_parser(kind, input, start) ==
    and_then(sym("[", input, start), LAMBDA open :
    and_then(list_value(kind, input, space(input, open.pos)), LAMBDA first :
    with(list_items(kind, input, space(input, first.pos), <<first.out>>), LAMBDA rest :
    and_then(sym("]", input, rest.pos), LAMBDA close :
    POk(rest.out, close.pos)))))

\* The operator tokens in the order of the choice.
OperatorTokens ==
    << <<"Eq", <<"=", "=">> >>, <<"Ne", <<"!", "=">> >>, <<"Gte", <<">", "=">> >>,
       <<"Lte", <<"<", "=">> >>, <<"Gt", <<">">> >>, <<"Lt", <<"<">> >> >>

RECURSIVE operator_from(_, _, _)
operator_from(i, input, start) ==
    IF i > Len(OperatorTokens)
    THEN map(seq_nocase(<<"i", "n">>, input, start), LAMBDA tag : "In")
    ELSE or_else(map(seq(OperatorTokens[i][2], input, start),
                     LAMBDA tag : OperatorTokens[i][1]),
                 operator_from(i + 1, input, start))

\* operator()
operator(input, start) == name(operator_from(1, input, start), start)

\* A variant of literal_alternative whose words null, true and false match
\* only when no character of a field name follows them.
literal_alternative_whole_word(i, input, start) ==
    LET word(tag, value) ==
            and_then(seq_nocase(tag, input, start), LAMBDA out :
                     IF Has(input, out.pos) /\ At(input, out.pos) \in FieldRest
                     THEN PErr("Mismatch", out.pos)
                     ELSE POk(LiteralValue(value), out.pos))
        valued(type, r) == map(r, LAMBDA out : LiteralValue(Value(type, out)))
    IN  CASE i = 1 -> word(<<"n", "u", "l", "l">>, ValueNull)
          [] i = 2 -> word(<<"t", "r", "u", "e">>, Value("Boolean", TRUE))
          [] i = 3 -> word(<<"f", "a", "l", "s", "e">>, Value("Boolean", FALSE))
          [] i = 4 -> valued("String", string(input, start))
          [] i = 5 -> valued("Regex", regex_string(input, start))
          [] i = 6 -> valued("Raw", raw(input, start))
          [] i = 7 -> valued("DateTime", datetime(input, start))
          [] i = 8 -> valued("Number", number(input, start))
          [] i = 9 -> valued("StringList", list_parser("StringList", input, start))
          [] i = 10 -> valued("RawList", list_parser("RawList", input, start))
          [] i = 11 -> valued("DateTimeList", list_parser("DateTimeList", input, start))
          [] i = 12 -> valued("NumberList", list_parser("NumberList", input, start))
          [] i = 13 -> map(field(input, start), LiteralField)

\* One alternative of literal(), by its place in the choice.
literal_alternative(i, input, start) ==
    LET word(tag, value) ==
            map(seq_nocase(tag, input, start), LAMBDA out : LiteralValue(value))
        valued(type, r) == map(r, LAMBDA out : LiteralValue(Value(type, out)))
    IN  CASE i = 1 -> word(<<"n", "u", "l", "l">>, ValueNull)
          [] i = 2 -> word(<<"t", "r", "u", "e">>, Value("Boolean", TRUE))
          [] i = 3 -> word(<<"f", "a", "l", "s", "e">>, Value("Boolean", FALSE))
          [] i = 4 -> valued("String", string(input, start))
          [] i = 5 -> valued("Regex", regex_string(input, start))
          [] i = 6 -> valued("Raw", raw(input, start))
          [] i = 7 -> valued("DateTime", datetime(input, start))
          [] i = 8 -> valued("Number", number(input, start))
          [] i = 9 -> valued("StringList", list_parser("StringList", input, start))
          [] i = 10 -> valued("RawList", list_parser("RawList", input, start))
          [] i = 11 -> valued("DateTimeList", list_parser("DateTimeList", input, start))
          [] i = 12 -> valued("NumberList", list_parser("NumberList", input, start))
          [] i = 13 -> map(field(input, start), LiteralField)

\* The ordered choice a | b | ...: the first alternative that succeeds, else
\* the error of the last one.
RECURSIVE literal_from(_, _, _)
literal_from(i, input, start) ==
    with(literal_alternative(i, input, start), LAMBDA r :
         IF r.ok \/ i = 13 THEN r ELSE literal_from(i + 1, input, start))

\* literal()
literal(input, start) == name(literal_from(1, input, start), start)

\* operation(): (literal() - space()) + (operator() - space()) + literal();
\* nothing is consumed after the right operand.
operation(input, start) ==
    name(and_then(literal(input, start), LAMBDA lhs :
         and_then(operator(input, space(input, lhs.pos)), LAMBDA op :
         and_then(literal(input, space(input, op.pos)), LAMBDA rhs :
         POk(Operation(lhs.out, op.out, rhs.out), rhs.pos)))), start)

RECURSIVE expression(_, _)

\* (call(expression) - space() - (seq_nocase(word) - space()).opt()).repeat(1..),
\* from the offset pos on
\* A variant of group_items that wants the word between every two children
\* and nowhere else.
RECURSIVE group_items_separated(_, _, _, _)
group_items_separated(word, input, pos, acc) ==
    if_ok(expression(input, pos),
          LAMBDA e :
              with(space(input, e.pos), LAMBDA after :
              if_ok(seq_nocase(word, input, after),
                    LAMBDA sep : group_items_separated(word, input, space(input, sep.pos),
                                                       Append(acc, e.out)),
                    Items(Append(acc, e.out), after))),
          Items(<<>>, pos))

RECURSIVE group_items_either_word(_, _, _, _)
group_items_either_word(word, input, pos, acc) ==
    if_ok(expression(input, pos),
          LAMBDA e :
              with(space(input, e.pos), LAMBDA after :
              group_items_either_word(word, input,
                          opt(and_then(or_else(seq_nocase(<<"a", "n", "d">>, input, after),
                                               seq_nocase(<<"o", "r">>, input, after)),
                                       LAMBDA sep : POk(<<>>, space(input, sep.pos))),
                              after),
                          Append(acc, e.out))),
          Items(acc, pos))

RECURSIVE group_items(_, _, _, _)
group_items(word, input, pos, acc) ==
    if_ok(expression(input, pos),
          LAMBDA e :
              with(space(input, e.pos), LAMBDA after :
              group_items(word, input,
                          opt(and_then(seq_nocase(word, input, after), LAMBDA sep :
                                       POk(<<>>, space(input, sep.pos))),
                              after),
                          Append(acc, e.out))),
          Items(acc, pos))

\* The body of and() and of or(): ( first word item+ ), the separator word
\* being required after the first child and optional after each later one.
group(word, input, start) ==
    and_then(sym("(", input, start), LAMBDA open :
    and_then(expression(input, space(input, open.pos)), LAMBDA first :
    and_then(seq_nocase(word, input, space(input, first.pos)), LAMBDA sep :
    with(space(input, sep.pos), LAMBDA from :
    with(group_items(word, input, from, <<>>), LAMBDA rest :
    IF rest.out = <<>> THEN PErr("Mismatch", from)
    ELSE and_then(sym(")", input, space(input, rest.pos)), LAMBDA close :
         POk(<<first.out>> \o rest.out, close.pos)))))))

\* and()
and(input, start) == name(map(group(<<"a", "n", "d">>, input, start), And), start)

\* or()
or(input, start) == name(map(group(<<"o", "r">>, input, start), Or), start)

\* not(): ! ( expression ) with whitespace after both marks and before the
\* closing parenthesis.
not(input, start) ==
    name(and_then(sym("!", input, start), LAMBDA bang :
         and_then(sym("(", input, space(input, bang.pos)), LAMBDA open :
         and_then(expression(input, space(input, open.pos)), LAMBDA e :
         and_then(sym(")", input, space(input, e.pos)), LAMBDA close :
         POk(Not(e.out), close.pos))))), start)

\* expression(): and | or | not | operation
expression(input, start) ==
    name(or_else(and(input, start),
         or_else(or(input, start),
         or_else(not(input, start),
                 operation(input, start)))), start)

\* parser(): space() * expression() - end()
parser(input) ==
    and_then(expression(input, space(input, 0)), LAMBDA e :
    and_then(end_of_input(input, e.pos), LAMBDA last :
    e))

\* Result<Expression, ParseError>
ParseOk(e) == <<"Ok", e>>
ParseErr(kind, position) == <<"Err", kind, position>>

\* ExpressionParser::parse
parse(input) ==
    with(parser(input), LAMBDA r :
         IF r.ok THEN ParseOk(r.out) ELSE ParseErr(r.err, r.pos))

-----------------------------------------------------------------------------
(* serialize.rs: impl Serialize for Expression, Literal, Value, Operator   *)

\* The texts joined with a separator between them: [String]::join.
RECURSIVE join(_, _)
join(texts, separator) ==
    IF texts = <<>> THEN <<>>
    ELSE IF Len(texts) = 1 THEN texts[1]
    ELSE texts[1] \o separator \o join(Tail(texts), separator)

\* char::escape_debug of one character inside a str: the quote and the
\* backslash get a backslash, TAB, CR, LF and NUL their letter, every other
\* control character its \u{...} form; all else is printed as it is.
escape_debug(c) ==
    CASE c = "\"" -> <<"\\", "\"">>
      [] c = "\\" -> <<"\\", "\\">>
      [] c = "TAB" -> <<"\\", "t">>
      [] c = "CR" -> <<"\\", "r">>
      [] c = "LF" -> <<"\\", "n">>
      [] c = "NUL" -> <<"\\", "0">>
      [] c = "BS" -> <<"\\", "u", "{", "8", "}">>
      [] c = "FF" -> <<"\\", "u", "{", "c", "}">>
      [] OTHER -> <<c>>

\* format!("{:?}", val) of a String
format_debug(val) ==
    <<"\"">> \o join([i \in 1..Len(val) |-> escape_debug(val[i])], <<>>) \o <<"\"">>

\* A variant of replace_slash that leaves every slash as it is.
replace_slash_skipped(val) == val

\* val.replace("/", "\\/")
replace_slash(val) ==
    join([i \in 1..Len(val) |-> IF val[i] = "/" THEN <<"\\", "/">> ELSE <<val[i]>>], <<>>)

format_regex(val) == <<"/">> \o replace_slash(val) \o <<"/">>

\* format!("{:02x?}", byte): two lower-case hexadecimal digits
format_byte(byte) == <<HexSeq[(byte \div 16) + 1], HexSeq[(byte % 16) + 1]>>

format_raw(val) ==
    <<"|">> \o join([i \in 1..Len(val) |-> format_byte(val[i])], <<" ">>) \o <<"|">>

\* format!("{}", val) of a bool
format_bool(val) ==
    IF val THEN <<"t", "r", "u", "e">> ELSE <<"f", "a", "l", "s", "e">>

\* "[" + the items joined by ", " + "]"
format_list(items) == <<"[">> \o join(items, <<",", " ">>) \o <<"]">>

\* impl Serialize for Value
Value_fmt(value) ==
    LET v == value.val
        each(F(_)) == format_list([i \in 1..Len(v) |-> F(v[i])])
    IN  CASE value.type = "String" -> format_debug(v)
          [] value.type = "Regex" -> format_regex(v)
          [] value.type = "Number" -> f64_display(v)
          [] value.type = "Boolean" -> format_bool(v)
          [] value.type = "Raw" -> format_raw(v)
          [] value.type = "DateTime" -> to_rfc3339_opts(v)
          [] value.type = "StringList" -> each(format_debug)
          [] value.type = "NumberList" -> each(f64_display)
          [] value.type = "BooleanList" -> each(format_bool)
          [] value.type = "RawList" -> each(format_raw)
          [] value.type = "DateTimeList" -> each(to_rfc3339_opts)
          [] value.type = "Null" -> <<"n", "u", "l", "l">>

\* impl Serialize for Literal
Literal_fmt(lit) ==
    IF lit[1] = "LiteralValue" THEN Value_fmt(lit[2]) ELSE lit[2]

\* impl Serialize for Operator
Operator_fmt(op) == fmt_static(op)

\* impl Serialize for Operation
Operation_fmt(o) ==
    Literal_fmt(o.lhs) \o <<" ">> \o Operator_fmt(o.op) \o <<" ">> \o Literal_fmt(o.rhs)

\* impl Serialize for Expression, And, Or, Not
RECURSIVE Expression_fmt(_)
Expression_fmt(e) ==
    LET subs == [i \in 1..Len(get_subexpressions(e)) |->
                    Expression_fmt(get_subexpressions(e)[i])]
    IN  CASE e.kind = "And" ->
                <<"(">> \o join(subs, <<" ", "A", "N", "D", " ">>) \o <<")">>
          [] e.kind = "Or" ->
                <<"(">> \o join(subs, <<" ", "O", "R", " ">>) \o <<")">>
          [] e.kind = "Not" ->
                <<"!", "(">> \o Expression_fmt(get_subexpression(e)) \o <<")">>
          [] e.kind = "Operation" -> Operation_fmt(e)

-----------------------------------------------------------------------------
(* The inputs of the engine: sample values, schemas, targets, operations   *)

\* How many sample payloads each scalar type has.
MaxVal == 2

\* An instant, whole seconds after the epoch.
Instant(secs) == [secs |-> secs, nanos |-> 0]

\* The first n elements of a, b, a, b, ... and of 1, 2, 3, ...
AbText(n) == [i \in 1..n |-> IF i % 2 = 1 THEN "a" ELSE "b"]
ByteRun(n) == [i \in 1..n |-> i]

\* The sample payloads of a scalar type, in a fixed order.
ScalarSample(t, i) ==
    CASE t = "String" -> AbText(i)
      [] t = "Number" -> Num(i)
      [] t = "Boolean" -> (i % 2 = 1)
      [] t = "Raw" -> ByteRun(i)
      [] t = "DateTime" -> Instant(i)

ListOf == [String |-> "StringList", Number |-> "NumberList", Boolean |-> "BooleanList",
           Raw |-> "RawList", DateTime |-> "DateTimeList"]

ScalarType == {"String", "Number", "Boolean", "Raw", "DateTime"}

\* A well-formed and an ill-formed pattern.
RegexSamples == {<<"a">>, <<"(">>}

\* The sample payloads of every type: MaxVal payloads of a scalar type, the
\* list of all of them for a list type.
Samples(t) ==
    CASE t \in ScalarType -> { ScalarSample(t, i) : i \in 1..MaxVal }
      [] t = "Regex" -> RegexSamples
      [] t = "Null" -> { <<>> }
      [] OTHER ->
            LET s == CHOOSE x \in ScalarType : ListOf[x] = t
            IN  { [i \in 1..MaxVal |-> ScalarSample(s, i)] }

SampleValues == UNION { { Value(t, v) : v \in Samples(t) } : t \in Type }

\* "f" is the one registered field; "g" is never registered.
\* (The engine takes a name as a whole; the parser yields a name as the text
\* it read, a sequence of characters.)
FieldNames == {"f"}
UnknownNames == {"g"}

\* The schemas SchemaBuilder::new().with_<t>_field("f", ..).build() yields.
Schemas == { [n \in FieldNames |-> Field(t, wrapped_extractor(t, n))] : t \in BuilderType }

\* What a user's extractor of type t may return: None, or Some payload.
Options(t) == {None} \cup { Some(v) : v \in Samples(t) }

\* The targets of a schema with the one field "f".
Targets(sch) == { [n \in DOMAIN sch |-> o] : o \in Options(sch["f"].field_type) }

Literals ==
    { LiteralValue(v) : v \in SampleValues }
        \cup { LiteralField(n) : n \in FieldNames \cup UnknownNames }

Operations == { Operation(l, op, r) : l \in Literals, op \in Operator, r \in Literals }

-----------------------------------------------------------------------------
(* The engine as a state machine: an Engine over a schema, an expression,  *)
(* a target, and the calls validate and execute.                           *)

NoText == <<>>

\* No builder at work: the schema was built before.
Built == [open |-> FALSE, fields |-> <<>>]

BuilderIdle ==
    /\ builder = Built
    /\ calls = <<>>
    /\ extracted = NotRun

ParserIdle ==
    /\ text = NoText
    /\ parsed = NotRun
    /\ serialized = NotRun
    /\ reparsed = NotRun
    /\ trailing = NoText
    /\ tparsed = NotRun

Init ==
    /\ schema \in Schemas
    /\ target \in Targets(schema)
    /\ expr \in Operations
    /\ vres = NotRun
    /\ xres = NoRun
    /\ ParserIdle
    /\ BuilderIdle
    /\ answers = <<>>

\* engine.validate(&expr)
Validate ==
    /\ vres = NotRun
    /\ vres' = validate(schema, expr)
    /\ UNCHANGED <<schema, target, expr, xres, parserVars, answers, builderVars>>

\* engine.execute(&expr, &target)
Execute ==
    /\ xres = NoRun
    /\ xres' = execute(schema, expr, target)
    /\ UNCHANGED <<schema, target, expr, vres, parserVars, answers, builderVars>>

\* The expression is still being built: no call was made on it.
Building == vres = NotRun /\ xres = NoRun

\* Expression::Not(Not::new(expr))
WrapNot ==
    /\ Building
    /\ expr.kind = "Operation"
    /\ expr' = Not(expr)
    /\ UNCHANGED <<schema, target, vres, xres, parserVars, answers, builderVars>>

\* Expression::And(And::new(vec![expr])): a single-child node, which only a
\* caller can build.
WrapAnd ==
    /\ Building
    /\ expr.kind = "Operation"
    /\ expr' = And(<<expr>>)
    /\ UNCHANGED <<schema, target, vres, xres, parserVars, answers, builderVars>>

\* Expression::Or(Or::new(vec![expr]))
WrapOr ==
    /\ Building
    /\ expr.kind = "Operation"
    /\ expr' = Or(<<expr>>)
    /\ UNCHANGED <<schema, target, vres, xres, parserVars, answers, builderVars>>

Next == Validate \/ Execute \/ WrapNot \/ WrapAnd \/ WrapOr

Spec == Init /\ [][Next]_vars

-----------------------------------------------------------------------------
(* Properties of validate and execute on operations (specification Spec)   *)

\* The Operation under the And / Or / Not nodes wrapped around it.
RECURSIVE LeafOf(_)
LeafOf(e) == IF e.kind = "Operation" THEN e ELSE LeafOf(e.subs[1])

Validated == vres # NotRun
Executed == xres.res # NotRun

\* The values the two operands of an operation evaluate to on the target.
LhsValue(o) == extract_literal(schema, o.lhs, target)
RhsValue(o) == extract_literal(schema, o.rhs, target)

\* C2 (validator soundness): once validate(expr) returned Ok, execute(expr,
\* target) does not return InvalidOperatorError, whatever the extractors
\* return (a payload of the declared type, or Null).
C2_ValidatorSound ==
    (vres = Ok /\ Executed) => xres.res[1] # "InvalidOperatorError"

\* C2 witness: a validated ordering comparison on the field, whose extractor
\* returns None, was executed under a Not node.
C2_Witness ==
    /\ vres = Ok
    /\ Executed
    /\ expr.kind = "Not"
    /\ LeafOf(expr).op = "Gt"
    /\ LeafOf(expr).lhs = LiteralField("f")
    /\ target["f"] = None

\* C3 (null semantics): on a single Operation whose operands both evaluate,
\* two Nulls give Ok(true) exactly for Eq and Ok(false) for every other
\* operator; exactly one Null gives Ok(true) exactly for Ne and Ok(false)
\* for every other operator.
C3_NullSemantics ==
    (Executed /\ expr.kind = "Operation" /\ IsOk(LhsValue(expr)) /\ IsOk(RhsValue(expr))) =>
        LET ln == is_null(LhsValue(expr)[2])
            rn == is_null(RhsValue(expr)[2])
        IN  /\ (ln /\ rn) => xres.res = OkBool(expr.op = "Eq")
            /\ (ln # rn) => xres.res = OkBool(expr.op = "Ne")

\* C3 witness: Ne was executed on a Null field against the Null literal and
\* gave Ok(false).
C3_Witness ==
    /\ expr.kind = "Operation"
    /\ expr.op = "Ne"
    /\ expr.lhs = LiteralField("f")
    /\ target["f"] = None
    /\ expr.rhs = LiteralValue(ValueNull)
    /\ xres.res = OkBool(FALSE)

\* The operation with its operands exchanged.
Swapped(o) == Operation(o.rhs, o.op, o.lhs)

IsNullLiteral(l) == l = LiteralValue(ValueNull)

\* C4 (null symmetry): for Eq and Ne, an operation with the literal null on
\* one side returns what the operation with the operands exchanged returns.
C4_NullSymmetry ==
    (/\ Executed
     /\ expr.kind = "Operation"
     /\ expr.op \in {"Eq", "Ne"}
     /\ (IsNullLiteral(expr.lhs) \/ IsNullLiteral(expr.rhs))) =>
        xres.res = execute(schema, Swapped(expr), target).res

\* C4 witness: v != null was executed with v a non-null value, and is true.
C4_Witness ==
    /\ expr.kind = "Operation"
    /\ expr.op = "Ne"
    /\ expr.lhs = LiteralValue(Value("Number", Num(1)))
    /\ IsNullLiteral(expr.rhs)
    /\ xres.res = OkBool(TRUE)

ExecutionErrors == {"InvalidFieldError", "InvalidOperatorError", "InvalidDateRangeError"}

\* The operation is Regex IN String or Regex IN StringList on non-null
\* values, and the pattern does not compile.
BadRegexIn(o) ==
    /\ o.op = "In"
    /\ IsOk(LhsValue(o))
    /\ IsOk(RhsValue(o))
    /\ LhsValue(o)[2].type = "Regex"
    /\ RhsValue(o)[2].type \in {"String", "StringList"}
    /\ ~Regex_new_ok(LhsValue(o)[2].val)

\* C5 (as claimed): executing an In operation whose Regex lhs does not
\* compile, against a non-null String or StringList, returns an
\* Err(ExecutionError).
C5_RegexFailureIsErr ==
    (Executed /\ expr.kind = "Operation" /\ BadRegexIn(expr)) =>
        xres.res[1] \in ExecutionErrors

\* The operator-compatibility table of the specification.
OrderedOps == {"Eq", "Ne", "Gt", "Gte", "Lt", "Lte"}

TableAllows(l, op, r) ==
    \/ (l = "Null" \/ r = "Null") /\ op \in {"Eq", "Ne", "In"}
    \/ l = "String" /\ r = "String" /\ op \in {"Eq", "Ne", "In"}
    \/ l = "String" /\ r = "StringList" /\ op = "In"
    \/ l = "Regex" /\ r = "String" /\ op = "In"
    \/ l = "Regex" /\ r = "StringList" /\ op = "In"
    \/ l = "Number" /\ r = "Number" /\ op \in OrderedOps
    \/ l = "DateTime" /\ r = "DateTime" /\ op \in OrderedOps
    \/ l = "Number" /\ r = "NumberList" /\ op = "In"
    \/ l = "Boolean" /\ r = "BooleanList" /\ op = "In"
    \/ l = "Raw" /\ r = "RawList" /\ op = "In"
    \/ l = "DateTime" /\ r = "DateTimeList" /\ op = "In"
    \/ l = "Boolean" /\ r = "Boolean" /\ op \in {"Eq", "Ne"}
    \/ l = "Raw" /\ r = "Raw" /\ op \in {"Eq", "Ne", "In"}
    \/ l = r /\ l \in {"StringList", "NumberList", "BooleanList", "RawList", "DateTimeList"}
         /\ op \in {"Eq", "Ne"}

\* C10 (operator-compatibility table): when both operand types of the
\* operation resolve to (L, R), validate returns Ok exactly when the table
\* allows (L, op, R), and InvalidOperatorError(L, op, R) otherwise.
C10_ValidateTable ==
    LET o == LeafOf(expr)
        l == extract_literal_type(schema, o.lhs)
        r == extract_literal_type(schema, o.rhs)
    IN  (Validated /\ IsOk(l) /\ IsOk(r)) =>
            vres = IF TableAllows(l[2], o.op, r[2]) THEN Ok
                   ELSE InvalidOperatorError(l[2], o.op, r[2])

\* C10 witness: with f: Number, f > "a" was validated and gave
\* InvalidOperatorError(Number, Gt, String).
C10_Witness ==
    /\ schema["f"].field_type = "Number"
    /\ expr = Operation(LiteralField("f"), "Gt", LiteralValue(Value("String", <<"a">>)))
    /\ vres = InvalidOperatorError("Number", "Gt", "String")

-----------------------------------------------------------------------------
(* DateTime ranges (specification SpecRange)                               *)

\* The longest DateTimeList tried as a range.
MaxRangeLen == 3

\* Instants that differ in their seconds and in their sub-second part.
RangeInstants == { [secs |-> s, nanos |-> n] : s \in 1..MaxVal, n \in {0, 500} }

RECURSIVE SeqsUpTo(_, _)
SeqsUpTo(S, n) ==
    IF n = 0 THEN { <<>> }
    ELSE LET shorter == SeqsUpTo(S, n - 1)
         IN  shorter \cup { Append(q, x) : q \in { r \in shorter : Len(r) = n - 1 }, x \in S }

RangeLists == SeqsUpTo(RangeInstants, MaxRangeLen)

DateTimeLiterals == { LiteralValue(Value("DateTime", d)) : d \in RangeInstants }
DateTimeListLiterals == { LiteralValue(Value("DateTimeList", r)) : r \in RangeLists }

\* f: DateTime tested against a literal list, or a literal instant tested
\* against f: DateTimeList.
InitRange ==
    /\ \/ /\ schema = [n \in FieldNames |-> Field("DateTime", wrapped_extractor("DateTime", n))]
          /\ target \in { [n \in FieldNames |-> o] :
                            o \in {None} \cup { Some(d) : d \in RangeInstants } }
          /\ expr \in { Operation(l, "In", r) :
                            l \in DateTimeLiterals \cup {LiteralField("f")},
                            r \in DateTimeListLiterals }
       \/ /\ schema = [n \in FieldNames |-> Field("DateTimeList", wrapped_extractor("DateTimeList", n))]
          /\ target \in { [n \in FieldNames |-> o] :
                            o \in {None} \cup { Some(r) : r \in RangeLists } }
          /\ expr \in { Operation(l, "In", LiteralField("f")) : l \in DateTimeLiterals }
    /\ vres = NotRun
    /\ xres = NoRun
    /\ ParserIdle
    /\ BuilderIdle
    /\ answers = <<>>

SpecRange == InitRange /\ [][Next]_vars

\* a is not later than b / a is earlier than b, on instants.
NotAfter(a, b) == a.secs < b.secs \/ (a.secs = b.secs /\ a.nanos <= b.nanos)
Earlier(a, b) == a.secs < b.secs \/ (a.secs = b.secs /\ a.nanos < b.nanos)

\* C7 (DateTime range membership): an In operation whose lhs evaluates to a
\* DateTime d and whose rhs evaluates to a DateTimeList r returns
\* Ok(r[0] <= d /\ d < r[1]) when r has exactly 2 elements, and
\* Err(InvalidDateRangeError) for every other length of r.
C7_DateRange ==
    (/\ Executed
     /\ expr.kind = "Operation"
     /\ expr.op = "In"
     /\ IsOk(LhsValue(expr))
     /\ IsOk(RhsValue(expr))
     /\ LhsValue(expr)[2].type = "DateTime"
     /\ RhsValue(expr)[2].type = "DateTimeList") =>
        LET d == LhsValue(expr)[2].val
            r == RhsValue(expr)[2].val
        IN  xres.res = IF Len(r) = 2
                       THEN OkBool(NotAfter(r[1], d) /\ Earlier(d, r[2]))
                       ELSE InvalidDateRangeError

\* C7 witness: f lies on the upper bound of the range and the result is
\* Ok(false).
C7_Witness ==
    /\ expr.kind = "Operation"
    /\ expr.lhs = LiteralField("f")
    /\ target["f"] = Some(Instant(2))
    /\ expr.rhs = LiteralValue(Value("DateTimeList", <<Instant(1), Instant(2)>>))
    /\ xres.res = OkBool(FALSE)

-----------------------------------------------------------------------------
(* Trees of And / Or / Not (specification SpecTree)                        *)

\* The most nodes (And, Or, Not and Operation) of a tree.
MaxNodes == 5

RECURSIVE Nodes(_)
RECURSIVE NodesOf(_, _)
NodesOf(subs, i) == IF i > Len(subs) THEN 0 ELSE Nodes(subs[i]) + NodesOf(subs, i + 1)
Nodes(e) == IF e.kind = "Operation" THEN 1 ELSE 1 + NodesOf(e.subs, 1)

\* Operations on f: Number that are true, false, or fail in each of the
\* ways an operation can fail, depending on what the extractor returns.
TreePool ==
    { Operation(LiteralField("f"), "Eq", LiteralValue(Value("Number", Num(1)))),
      Operation(LiteralField("f"), "Ne", LiteralValue(Value("Number", Num(1)))),
      Operation(LiteralField("g"), "Eq", LiteralValue(Value("Number", Num(1)))),
      Operation(LiteralField("f"), "In", LiteralValue(Value("String", <<"a">>))),
      Operation(LiteralValue(Value("DateTime", Instant(1))), "In",
                LiteralValue(Value("DateTimeList", <<Instant(1)>>))),
      Operation(LiteralValue(Value("Regex", <<"(">>)), "In",
                LiteralValue(Value("String", <<"a">>))) }

InitTree ==
    /\ schema = [n \in FieldNames |-> Field("Number", wrapped_extractor("Number", n))]
    /\ target \in Targets(schema)
    /\ expr \in TreePool
    /\ vres = NotRun
    /\ xres = NoRun
    /\ ParserIdle
    /\ BuilderIdle
    /\ answers = <<>>

\* Expression::Not(Not::new(expr)) around any tree
NestNot ==
    /\ Building
    /\ Nodes(expr) < MaxNodes
    /\ expr' = Not(expr)
    /\ UNCHANGED <<schema, target, vres, xres, parserVars, answers, builderVars>>

\* Expression::And(And::new(vec![expr])) around any tree
NestAnd ==
    /\ Building
    /\ Nodes(expr) < MaxNodes
    /\ expr' = And(<<expr>>)
    /\ UNCHANGED <<schema, target, vres, xres, parserVars, answers, builderVars>>

\* Expression::Or(Or::new(vec![expr])) around any tree
NestOr ==
    /\ Building
    /\ Nodes(expr) < MaxNodes
    /\ expr' = Or(<<expr>>)
    /\ UNCHANGED <<schema, target, vres, xres, parserVars, answers, builderVars>>

\* One more operation at the end of the vector an And / Or is built from.
PushChild ==
    /\ Building
    /\ expr.kind \in {"And", "Or"}
    /\ Nodes(expr) < MaxNodes
    /\ \E o \in TreePool : expr' = [expr EXCEPT !.subs = Append(@, o)]
    /\ UNCHANGED <<schema, target, vres, xres, parserVars, answers, builderVars>>

\* One more operation at the front of the vector an And / Or is built from.
PushFront ==
    /\ Building
    /\ expr.kind \in {"And", "Or"}
    /\ Nodes(expr) < MaxNodes
    /\ \E o \in TreePool : expr' = [expr EXCEPT !.subs = <<o>> \o @]
    /\ UNCHANGED <<schema, target, vres, xres, parserVars, answers, builderVars>>

NextTree ==
    Validate \/ Execute \/ NestNot \/ NestAnd \/ NestOr \/ PushChild \/ PushFront

SpecTree == InitTree /\ [][NextTree]_vars

\* What each child returns when executed on its own.
ChildResult(e, i) == execute(schema, e.subs[i], target).res

\* The first child whose own result ends the loop of an And (stop = FALSE)
\* or Or (stop = TRUE): it fails or returns stop; 0 when there is none.
FirstEnding(e, stop) ==
    LET ending == { i \in 1..Len(e.subs) :
                        ~IsOk(ChildResult(e, i)) \/ ChildResult(e, i) = OkBool(stop) }
    IN  IF ending = {} THEN 0 ELSE CHOOSE i \in ending : \A j \in ending : i <= j

RECURSIVE OpsUpTo(_, _)
\* The operations the children 1..k evaluate, in order.
OpsUpTo(e, k) ==
    IF k = 0 THEN <<>>
    ELSE OpsUpTo(e, k - 1) \o execute(schema, e.subs[k], target).ops

\* C8 (evaluation order and short circuit): an And / Or evaluates its
\* children left to right up to the first child that fails or returns false
\* (And) / true (Or), returns that child's error or Ok(false) / Ok(true), and
\* evaluates no later child; when no child ends the loop the result is
\* Ok(true) / Ok(false) and every child was evaluated.
C8_ShortCircuit ==
    (Executed /\ expr.kind \in {"And", "Or"}) =>
        LET stop == (expr.kind = "Or")
            k == FirstEnding(expr, stop)
        IN  IF k = 0
            THEN xres = Run(OkBool(~stop), OpsUpTo(expr, Len(expr.subs)))
            ELSE xres = Run(ChildResult(expr, k), OpsUpTo(expr, k))

\* C8 witness: an And of three children returned Ok(false) at its second
\* child, and its third child, which fails on its own, was not evaluated.
C8_Witness ==
    /\ expr.kind = "And"
    /\ Len(expr.subs) = 3
    /\ xres.res = OkBool(FALSE)
    /\ Len(xres.ops) = 2
    /\ ~IsOk(ChildResult(expr, 3))

\* C9 (boolean laws): execute(Not(Not(e))) returns what execute(e) returns
\* when that is Ok, and a single-child And([e]) or Or([e]) returns exactly
\* what execute(e) returns, boolean or error.
C9_BooleanLaws ==
    /\ (Executed /\ expr.kind = "Not" /\ expr.subs[1].kind = "Not") =>
            LET r == execute(schema, expr.subs[1].subs[1], target).res
            IN  IsOk(r) => xres.res = r
    /\ (Executed /\ expr.kind \in {"And", "Or"} /\ Len(expr.subs) = 1) =>
            xres.res = ChildResult(expr, 1)

\* C9 witness: Not(Not(And([e]))) was executed and returned Ok(true).
C9_Witness ==
    /\ expr.kind = "Not"
    /\ expr.subs[1].kind = "Not"
    /\ expr.subs[1].subs[1].kind = "And"
    /\ Len(expr.subs[1].subs[1].subs) = 1
    /\ xres.res = OkBool(TRUE)


-----------------------------------------------------------------------------
(* The input texts of the parser.  A text is written as the sequence of   *)
(* its characters, with the text itself in a comment beside it.           *)

\* The most pieces in the body of a string, a regex or a raw literal, and
\* the most elements of a list literal.
MaxItems == 2

\* The concatenations of at most n texts of a set of pieces.
RECURSIVE Concats(_, _)
Concats(pieces, n) ==
    IF n = 0 THEN { <<>> }
    ELSE LET shorter == Concats(pieces, n - 1)
         IN  shorter \cup { s \o p : s \in shorter, p \in pieces }

\* The texts x, x sep x, ... of at most n elements.
RECURSIVE Lists(_, _, _)
Lists(elements, separators, n) ==
    IF n = 1 THEN elements
    ELSE LET shorter == Lists(elements, separators, n - 1)
         IN  shorter \cup { l \o s \o e : l \in shorter, s \in separators, e \in elements }

\* What may stand between the quotes of a string: plain characters, raw
\* control characters, the eight escapes and an escape the grammar lacks.
StringPieces ==
    { <<"a">>,         \* a
      <<" ">>,         \*  
      <<"'">>,         \* '
      <<"/">>,         \* /
      <<"LF">>,        \* <LF>
      <<"NUL">>,       \* <NUL>
      <<"\\", "\\">>,  \* \\
      <<"\\", "/">>,   \* \/
      <<"\\", "\"">>,  \* \"
      <<"\\", "b">>,   \* \b
      <<"\\", "f">>,   \* \f
      <<"\\", "n">>,   \* \n
      <<"\\", "r">>,   \* \r
      <<"\\", "t">>,   \* \t
      <<"\\", "u">>    \* \u
    }

StringTexts == { <<"\"">> \o b \o <<"\"">> : b \in Concats(StringPieces, MaxItems) }

\* What may stand between the slashes of a regex.
RegexPieces ==
    { <<"a">>,        \* a
      <<"(">>,        \* (
      <<".">>,        \* .
      <<"\\">>,       \* \
      <<"\\", "/">>,  \* \/
      <<"\"">>        \* "
    }

RegexTexts == { <<"/">> \o b \o <<"/">> : b \in Concats(RegexPieces, MaxItems) }

\* What may stand between the bars of a raw literal.
RawPieces ==
    { <<"0", "a">>,       \* 0a
      <<"F", "f", " ">>,  \* Ff 
      <<" ", "1", "B">>,  \*  1B
      <<"0">>             \* 0
    }

RawTexts == { <<"|">> \o b \o <<"|">> : b \in Concats(RawPieces, MaxItems) }

\* Dates and times of day: three instants, a leap second, and a day and a
\* month that do not exist.
DateTexts ==
    { \* 1999-07-13T01:02:03
      <<"1", "9", "9", "9", "-", "0", "7", "-", "1", "3", "T", "0", "1", ":", "0", "2", ":", "0", "3">>,
      \* 2000-02-29T23:59:59
      <<"2", "0", "0", "0", "-", "0", "2", "-", "2", "9", "T", "2", "3", ":", "5", "9", ":", "5", "9">>,
      \* 1970-01-01T00:00:00
      <<"1", "9", "7", "0", "-", "0", "1", "-", "0", "1", "T", "0", "0", ":", "0", "0", ":", "0", "0">>,
      \* 1998-12-31T23:59:60
      <<"1", "9", "9", "8", "-", "1", "2", "-", "3", "1", "T", "2", "3", ":", "5", "9", ":", "6", "0">>,
      \* 1999-02-29T00:00:00
      <<"1", "9", "9", "9", "-", "0", "2", "-", "2", "9", "T", "0", "0", ":", "0", "0", ":", "0", "0">>,
      \* 1999-13-01T00:00:00
      <<"1", "9", "9", "9", "-", "1", "3", "-", "0", "1", "T", "0", "0", ":", "0", "0", ":", "0", "0">>
    }

\* Fractions of a second of zero to six digits.
FractionTexts ==
    { <<>>,                                  \* the empty text
      <<".", "5">>,                          \* .5
      <<".", "2", "5">>,                     \* .25
      <<".", "0", "0", "0">>,                \* .000
      <<".", "1", "2", "5">>,                \* .125
      <<".", "1", "2", "3", "4">>,           \* .1234
      <<".", "1", "2", "3", "4", "5">>,      \* .12345
      <<".", "1", "2", "3", "4", "5", "6">>, \* .123456
      <<".", "1", "2", "3", "0">>,           \* .1230
      <<".", "5", "0", "0", "0", "0">>       \* .50000
    }

\* Offsets: UTC, east, west, and two the grammar or the conversion rejects.
ZoneTexts ==
    { <<"Z">>,                           \* Z
      <<"+", "0", "1", ":", "0", "0">>,  \* +01:00
      <<"-", "0", "0", ":", "3", "0">>,  \* -00:30
      <<"z">>,                           \* z
      <<"+", "2", "4", ":", "0", "0">>   \* +24:00
    }

DateTimeTexts ==
    { d \o f \o z : d \in DateTexts, f \in FractionTexts, z \in ZoneTexts }

SignTexts ==
    { <<>>,    \* the empty text
      <<"-">>  \* -
    }

IntegerTexts ==
    { <<"0">>,            \* 0
      <<"7">>,            \* 7
      <<"1", "2", "0">>,  \* 120
      <<"0", "1">>        \* 01
    }

FracTexts ==
    { <<>>,               \* the empty text
      <<".", "5">>,       \* .5
      <<".", "5", "0">>,  \* .50
      <<".", "0", "5">>,  \* .05
      <<".">>             \* .
    }

ExpTexts ==
    { <<>>,                         \* the empty text
      <<"e", "2">>,                 \* e2
      <<"E", "+", "2">>,            \* E+2
      <<"e", "-", "3">>,            \* e-3
      <<"e", "9", "9", "9">>,       \* e999
      <<"e", "-", "9", "9", "9">>,  \* e-999
      <<"e">>                       \* e
    }

\* Numbers: -? integer fraction? exponent?, well formed or not.
NumberTexts ==
    { s \o i \o f \o e :
        s \in SignTexts, i \in IntegerTexts, f \in FracTexts, e \in ExpTexts }

\* The keywords in several cases, and field names, some of which begin
\* with a keyword or are what a number prints as.
WordTexts ==
    { <<"n", "u", "l", "l">>,                                \* null
      <<"N", "U", "L", "L">>,                                \* NULL
      <<"n", "U", "l", "L">>,                                \* nUlL
      <<"t", "r", "u", "e">>,                                \* true
      <<"T", "r", "u", "e">>,                                \* True
      <<"f", "a", "l", "s", "e">>,                           \* false
      <<"F", "A", "L", "S", "E">>,                           \* FALSE
      <<"a">>,                                               \* a
      <<"b">>,                                               \* b
      <<"_", "x", ":", "y", "1">>,                           \* _x:y1
      <<"N", "a", "m", "e">>,                                \* Name
      <<"n", "u", "l", "l", "a", "b", "l", "e">>,            \* nullable
      <<"t", "r", "u", "e", "V", "a", "l", "u", "e">>,       \* trueValue
      <<"F", "A", "L", "S", "E", "_", "f", "l", "a", "g">>,  \* FALSE_flag
      <<"i", "n", "f">>,                                     \* inf
      <<"N", "a", "N">>,                                     \* NaN
      <<"a", ":">>                                           \* a:
    }

\* What may stand between two elements of a list.
Separators ==
    { <<",">>,           \* ,
      <<",", " ">>,      \* , 
      <<" ", ",", " ">>  \*  , 
    }

StringElements ==
    { <<"\"", "a", "\"">>,       \* "a"
      <<"\"", "\"">>,            \* ""
      <<"\"", "\\", "b", "\"">>  \* "\b"
    }

RawElements ==
    { <<"|", "0", "a", "|">>,                     \* |0a|
      <<"|", "0", "B", " ", "0", "c", "|", " ">>  \* |0B 0c| 
    }

DateTimeElements ==
    { \* 1999-07-13T01:02:03Z
      <<"1", "9", "9", "9", "-", "0", "7", "-", "1", "3", "T", "0", "1", ":", "0", "2", ":", "0", "3", "Z">>,
      \* 2000-02-29T23:59:59.1234+01:00
      <<"2", "0", "0", "0", "-", "0", "2", "-", "2", "9", "T", "2", "3", ":", "5", "9", ":", "5", "9", ".", "1", "2", "3", "4", "+", "0", "1", ":", "0", "0">>
    }

NumberElements ==
    { <<"1">>,                \* 1
      <<"2", ".", "5">>,      \* 2.5
      <<"-", "3", "e", "2">>  \* -3e2
    }

WordElements ==
    { <<"t", "r", "u", "e">>,      \* true
      <<"f", "a", "l", "s", "e">>  \* false
    }

\* The lists: [ element (separator element)* ], and the empty list.
ListTexts ==
    { <<"[">> \o l \o <<"]">> :
        l \in UNION { Lists(e, Separators, MaxItems) :
                        e \in {StringElements, RawElements, DateTimeElements,
                               NumberElements, WordElements} } }
        \cup { <<"[", "]">>, <<"[", " ", "1", " ", "]">> }

\* Every text tried at a literal position.
LiteralTexts ==
    StringTexts \cup RegexTexts \cup RawTexts \cup DateTimeTexts \cup NumberTexts
        \cup WordTexts \cup ListTexts

\* The operator tokens, with and without whitespace around them, and two
\* tokens that are no operator.
OperatorTexts ==
    { <<" ", "=", "=", " ">>,    \*  == 
      <<"=", "=">>,              \* ==
      <<" ", "!", "=", " ">>,    \*  != 
      <<" ", ">", "=", " ">>,    \*  >= 
      <<" ", "<", "=", " ">>,    \*  <= 
      <<" ", ">", " ">>,         \*  > 
      <<" ", "<", " ">>,         \*  < 
      <<" ", "i", "n", " ">>,    \*  in 
      <<" ", "I", "N", " ">>,    \*  IN 
      <<" ", "I", "n", " ">>,    \*  In 
      <<" ", "=", " ">>,         \*  = 
      <<" ", "<", ">", " ">>,    \*  <> 
      <<"TAB", "=", "=", "LF">>  \* <TAB>==<LF>
    }

\* The left operands the literal texts are compared with.
LeftTexts ==
    { <<"a">>,                \* a
      <<"1", ".", "5">>,      \* 1.5
      <<"|", "0", "a", "|">>  \* |0a|
    }

\* literal operator literal: every literal text on the right of ==, and
\* every operator text between two operands.
OperationTexts ==
    { l \o <<" ", "=", "=", " ">> \o r : l \in LeftTexts, r \in LiteralTexts }
        \cup { l \o o \o <<"1">> : l \in LeftTexts, o \in OperatorTexts }

\* The children of the groups: two operations, a negation and a group.
ChildTexts ==
    { <<"a", " ", "=", "=", " ", "1">>,                             \* a == 1
      <<"b", " ", "!", "=", " ", "\"", "x", "\"">>,                 \* b != "x"
      <<"!", "(", "a", " ", "=", "=", " ", "1", ")">>,              \* !(a == 1)
      \* (a == 1 OR b == 2)
      <<"(", "a", " ", "=", "=", " ", "1", " ", "O", "R", " ", "b", " ", "=", "=", " ", "2", ")">>
    }

\* What may stand between two children of a group.
KeywordTexts ==
    { <<" ", "A", "N", "D", " ">>,  \*  AND 
      <<" ", "O", "R", " ">>,       \*  OR 
      <<" ", "a", "n", "d", " ">>,  \*  and 
      <<" ">>                       \*  
    }

\* What may stand before the closing parenthesis of a group.
ClosingTexts ==
    { <<>>,                    \* the empty text
      <<" ">>,                 \*  
      <<" ", "A", "N", "D">>,  \*  AND
      <<" ", "O", "R", " ">>   \*  OR 
    }

\* The most children of a group.
MaxChildren == 3

\* The groups ( child (keyword child)* closing ) of at least 2 children, and
\* the negations !( child ).
GroupTexts ==
    { <<"(">> \o g \o c \o <<")">> :
        g \in Lists(ChildTexts, KeywordTexts, MaxChildren) \ ChildTexts,
        c \in ClosingTexts }

NotTexts ==
    { <<"!">> \o s \o <<"(">> \o s \o c \o s \o <<")">> : s \in {<<>>, <<" ">>}, c \in ChildTexts }

\* Texts of no other shape: the empty text, a group of one child, a group
\* with a keyword and no second child, leading whitespace, a keyword
\* without whitespace around it.
OtherTexts ==
    { <<>>,                                                         \* the empty text
      <<"(", "a", " ", "=", "=", " ", "1", ")">>,                   \* (a == 1)
      <<"(", "a", " ", "A", "N", "D", ")">>,                        \* (a AND)
      \* (a == 1 AND)
      <<"(", "a", " ", "=", "=", " ", "1", " ", "A", "N", "D", ")">>,
      <<" ", "TAB", "CR", "LF", "a", " ", "=", "=", " ", "1">>,     \*  <TAB><CR><LF>a == 1
      \* (a == 1and b == 2)
      <<"(", "a", " ", "=", "=", " ", "1", "a", "n", "d", " ", "b", " ", "=", "=", " ", "2", ")">>,
      \* (a == 1 AND b == 2 OR == 3)
      <<"(", "a", " ", "=", "=", " ", "1", " ", "A", "N", "D", " ", "b", " ", "=", "=", " ", "2", " ", "O", "R", " ", "=", "=", " ", "3", ")">>,
      \* a == 1 b == 2
      <<"a", " ", "=", "=", " ", "1", " ", "b", " ", "=", "=", " ", "2">>,
      <<"!", "a", " ", "=", "=", " ", "1">>,                        \* !a == 1
      \* ((a == 1 AND b == 2) AND (a == 1 OR b == 2))
      <<"(", "(", "a", " ", "=", "=", " ", "1", " ", "A", "N", "D", " ", "b", " ", "=", "=", " ", "2", ")", " ", "A", "N", "D", " ", "(", "a", " ", "=", "=", " ", "1", " ", "O", "R", " ", "b", " ", "=", "=", " ", "2", ")", ")">>
    }

\* Identifiers that begin with null, true or false, two of them ending in
\* the word of a group.
PrefixedWords ==
    { <<"n", "u", "l", "l", "a", "b", "l", "e">>,            \* nullable
      <<"t", "r", "u", "e", "V", "a", "l", "u", "e">>,       \* trueValue
      <<"F", "A", "L", "S", "E", "_", "f", "l", "a", "g">>,  \* FALSE_flag
      <<"n", "u", "l", "l", "a", "n", "d">>,                 \* nulland
      <<"t", "r", "u", "e", "o", "r">>                       \* trueor
    }

\* The texts that use the identifier w as an operand: on the left and on the
\* right of an operation, in the first and in the second child of a group,
\* and under a negation.
OperandOnLeft(w) == w \o <<" ", "=", "=", " ", "1">>                      \* w == 1
OperandOnRight(w) == <<"a", " ", "=", "=", " ">> \o w                     \* a == w
InFirstChild(w) ==                                                        \* (a == w AND b == 1)
    <<"(">> \o OperandOnRight(w) \o <<" ", "A", "N", "D", " ", "b", " ", "=", "=", " ", "1", ")">>
InSecondChild(word, w) ==                                                 \* (a == 1 word b == w c == 2)
    <<"(", "a", " ", "=", "=", " ", "1", " ">> \o word
        \o <<" ", "b", " ", "=", "=", " ">> \o w \o <<" ", "c", " ", "=", "=", " ", "2", ")">>
UnderNot(w) == <<"!", "(">> \o OperandOnRight(w) \o <<")">>               \* !(a == w)

UsesOf(w) ==
    { OperandOnLeft(w), OperandOnRight(w), InFirstChild(w),
      InSecondChild(<<"A", "N", "D">>, w), InSecondChild(<<"O", "R">>, w), UnderNot(w) }

PrefixedUses == UNION { UsesOf(w) : w \in PrefixedWords }

\* Groups of two children with nothing, a space, or a tab and a line feed
\* on either side of the separator word.
Spacings == { <<>>, <<" ">>, <<"TAB", "LF">> }

SeparatorWords == { <<"A", "N", "D">>, <<"O", "R">> }

SpacedGroup(first, before, word, after, second) ==
    <<"(">> \o first \o before \o word \o after \o second \o <<")">>

\* A child that ends in a field name.
FieldEnded == <<"a", " ", "=", "=", " ", "b">>  \* a == b

SpacedChildren == (ChildTexts \cup {FieldEnded}) \X ChildTexts

SpacedTexts ==
    { SpacedGroup(c[1], s[1], w, s[2], c[2]) :
        c \in SpacedChildren, s \in Spacings \X Spacings, w \in SeparatorWords }

\* Every input text of the parser.
Texts ==
    OperationTexts \cup GroupTexts \cup NotTexts \cup OtherTexts \cup PrefixedUses
        \cup SpacedTexts

-----------------------------------------------------------------------------
(* The parser and the serializer at work: a text is parsed, the AST        *)
(* serialized, and the serialized text parsed again.                       *)

EngineIdle ==
    /\ schema = [n \in FieldNames |-> Field("Number", wrapped_extractor("Number", n))]
    /\ target = [n \in FieldNames |-> None]
    /\ expr = Operation(LiteralField("f"), "Eq", LiteralValue(ValueNull))
    /\ vres = NotRun
    /\ xres = NoRun

InitParse ==
    /\ EngineIdle
    /\ BuilderIdle
    /\ answers = <<>>
    /\ text \in Texts
    /\ parsed = NotRun
    /\ serialized = NotRun
    /\ reparsed = NotRun
    /\ trailing = NoText
    /\ tparsed = NotRun

\* ExpressionParser::parse(text)
Parse ==
    /\ parsed = NotRun
    /\ parsed' = parse(text)
    /\ UNCHANGED <<engineVars, builderVars, answers, text, serialized, reparsed, trailing, tparsed>>

\* Serialize::fmt(&expression) of the parsed AST
Serialize ==
    /\ parsed[1] = "Ok"
    /\ serialized = NotRun
    /\ trailing = NoText
    /\ serialized' = Expression_fmt(parsed[2])
    /\ UNCHANGED <<engineVars, builderVars, answers, text, parsed, reparsed, trailing, tparsed>>

\* ExpressionParser::parse of the serialized text
Reparse ==
    /\ serialized # NotRun
    /\ reparsed = NotRun
    /\ reparsed' = parse(serialized)
    /\ UNCHANGED <<engineVars, builderVars, answers, text, parsed, serialized, trailing, tparsed>>

NextParse == Parse \/ Serialize \/ Reparse

SpecParse == InitParse /\ [][NextParse]_vars


\* C1: serializer round-trip.  Whenever a text parses to an AST, the
\* serialized AST parses as well, and to an equal AST: once the serialized
\* text has been parsed again, the second result is the first one.
C1_RoundTrip ==
    (parsed[1] = "Ok" /\ reparsed # NotRun) => reparsed = parsed

-----------------------------------------------------------------------------
(* The parser on a text and on the same text with something written after  *)
(* it: parse(text) and parse(text followed by trailing).                   *)

\* The most characters written after a text.
MaxTrail == 2

\* What is written after a text: whitespace, and characters that are none.
TrailChars == Whitespace \cup {"0", "x", ")"}

\* The texts something is written after: every kind of literal on the right
\* of each left operand, the negations, the groups of two children.
TrailTexts ==
    { l \o <<" ", "=", "=", " ">> \o r :
        l \in LeftTexts,
        r \in StringElements \cup RawElements \cup DateTimeElements \cup NumberElements
                \cup WordTexts \cup RegexTexts \cup ListTexts }
        \cup { <<"(">> \o g \o c \o <<")">> :
                g \in Lists(ChildTexts, KeywordTexts, 2) \ ChildTexts,
                c \in ClosingTexts }
        \cup NotTexts \cup OtherTexts

InitTrail ==
    /\ EngineIdle
    /\ BuilderIdle
    /\ answers = <<>>
    /\ text \in TrailTexts
    /\ parsed = NotRun
    /\ serialized = NotRun
    /\ reparsed = NotRun
    /\ trailing = NoText
    /\ tparsed = NotRun

\* One more character is written after the text.
WriteTrailing ==
    /\ parsed[1] = "Ok"
    /\ tparsed = NotRun
    /\ Len(trailing) < MaxTrail
    /\ \E c \in TrailChars : trailing' = Append(trailing, c)
    /\ UNCHANGED <<engineVars, builderVars, answers, text, parsed, serialized, reparsed, tparsed>>

\* ExpressionParser::parse of the text and what was written after it
ParseTrailing ==
    /\ trailing # NoText
    /\ tparsed = NotRun
    /\ tparsed' = parse(text \o trailing)
    /\ UNCHANGED <<engineVars, builderVars, answers, text, parsed, serialized, reparsed, trailing>>

NextTrail == Parse \/ WriteTrailing \/ ParseTrailing

SpecTrail == InitTrail /\ [][NextTrail]_vars

AllWhitespace(s) == \A i \in 1..Len(s) : s[i] \in Whitespace

\* A text that parses, followed by a run of whitespace, parses to the same AST.
TrailingWhitespaceAllowed ==
    (parsed[1] = "Ok" /\ tparsed # NotRun /\ AllWhitespace(trailing)) => tparsed = parsed

\* A text that parses, followed by anything that is not only whitespace, is
\* a parse error.
TrailingContentRejected ==
    (parsed[1] = "Ok" /\ tparsed # NotRun /\ ~AllWhitespace(trailing)) => tparsed[1] = "Err"

\* C6: the parser consumes the whole input.  For a text that parses, the
\* text followed by a run of whitespace parses to the same AST, and the text
\* followed by any other content is a parse error.
C6_WholeInput == TrailingWhitespaceAllowed /\ TrailingContentRejected

-----------------------------------------------------------------------------
(* The order of validation (specification SpecOrder)                       *)

\* Operations over f: Number that validate, that fail on their operator, and
\* that name the unregistered fields g and h on either side.
OrderPool ==
    { Operation(LiteralField("f"), "Eq", LiteralValue(Value("Number", Num(1)))),
      Operation(LiteralField("f"), "In", LiteralValue(Value("String", <<"a">>))),
      Operation(LiteralValue(Value("String", <<"a">>)), "Gt", LiteralField("f")),
      Operation(LiteralField("g"), "Eq", LiteralField("h")),
      Operation(LiteralField("h"), "Gt", LiteralField("g")),
      Operation(LiteralValue(Value("String", <<"a">>)), "Gt", LiteralField("h")) }

InitOrder ==
    /\ schema = [n \in FieldNames |-> Field("Number", wrapped_extractor("Number", n))]
    /\ target = [n \in FieldNames |-> None]
    /\ expr \in OrderPool
    /\ vres = NotRun
    /\ xres = NoRun
    /\ ParserIdle
    /\ BuilderIdle
    /\ answers = <<>>

\* One more operation at the end of the vector an And / Or is built from.
PushOrdered ==
    /\ Building
    /\ expr.kind \in {"And", "Or"}
    /\ Nodes(expr) < MaxNodes
    /\ \E o \in OrderPool : expr' = [expr EXCEPT !.subs = Append(@, o)]
    /\ UNCHANGED <<schema, target, vres, xres, parserVars, answers, builderVars>>

\* One more operation at the front of the vector an And / Or is built from.
PushOrderedFront ==
    /\ Building
    /\ expr.kind \in {"And", "Or"}
    /\ Nodes(expr) < MaxNodes
    /\ \E o \in OrderPool : expr' = [expr EXCEPT !.subs = <<o>> \o @]
    /\ UNCHANGED <<schema, target, vres, xres, parserVars, answers, builderVars>>

NextOrder ==
    Validate \/ NestNot \/ NestAnd \/ NestOr \/ PushOrdered \/ PushOrderedFront

SpecOrder == InitOrder /\ [][NextOrder]_vars

RECURSIVE Leaves(_)
RECURSIVE LeavesOf(_, _)
\* The operations of a tree, depth first and left to right.
LeavesOf(subs, i) ==
    IF i > Len(subs) THEN <<>> ELSE Leaves(subs[i]) \o LeavesOf(subs, i + 1)
Leaves(e) == IF e.kind = "Operation" THEN <<e>> ELSE LeavesOf(e.subs, 1)

Unregistered(l) == l[1] = "LiteralField" /\ l[2] \notin DOMAIN schema

\* The type of an operand that resolves.
OperandType(l) ==
    IF l[1] = "LiteralValue" THEN l[2].type ELSE schema[l[2]].field_type

\* The violation of one operation: its unregistered lhs field, else its
\* unregistered rhs field, else its operator when the table forbids it.
Violation(o) ==
    IF Unregistered(o.lhs) THEN InvalidFieldError(o.lhs[2])
    ELSE IF Unregistered(o.rhs) THEN InvalidFieldError(o.rhs[2])
    ELSE IF ~TableAllows(OperandType(o.lhs), o.op, OperandType(o.rhs))
         THEN InvalidOperatorError(OperandType(o.lhs), o.op, OperandType(o.rhs))
    ELSE Ok

\* C11 (first violation): validate returns the violation of the first
\* operation, depth first and left to right, that has one (lhs field before
\* rhs field before operator), and Ok when no operation has one; no
\* violation of a later operation is returned.
C11_FirstViolation ==
    Validated =>
        LET leaves == Leaves(expr)
            failing == { i \in 1..Len(leaves) : Violation(leaves[i]) # Ok }
        IN  IF failing = {} THEN vres = Ok
            ELSE vres = Violation(leaves[CHOOSE i \in failing : \A j \in failing : i <= j])

\* C11 witness: in a validated group the first child names the unregistered
\* h on the rhs of an operator no String lhs allows, a later child fails on
\* its operator and another names g, and the error is InvalidFieldError(h).
C11_Witness ==
    /\ expr.kind \in {"And", "Or"}
    /\ Len(expr.subs) >= 3
    /\ expr.subs[1] = Operation(LiteralValue(Value("String", <<"a">>)), "Gt", LiteralField("h"))
    /\ expr.subs[2] = Operation(LiteralField("f"), "In", LiteralValue(Value("String", <<"a">>)))
    /\ expr.subs[3] = Operation(LiteralField("g"), "Eq", LiteralField("h"))
    /\ vres = InvalidFieldError("h")

-----------------------------------------------------------------------------
(* The schema builder (specification SpecBuild)                            *)

\* The most registrations made on one builder.
MaxCalls == 2

\* The names registered; "h" is never registered.
BuildNames == {"f", "g"}

\* The user's extractors of a type: two closures Fn(&T) -> Option<$type_>,
\* each named by the key of the target that holds what it returns.
UserExtractors(t) == { <<t, i>> : i \in 1..2 }

RECURSIVE NestedTargets(_)
RECURSIVE NestedOver(_, _)
\* The target records over the keys that a set of extractors reads: a
\* user's extractor returns an Option of a payload of its type, a parent
\* extractor an Option of a target of the extractors composed with it.
NestedOver(keys, extractors) ==
    IF keys = {} THEN { <<>> }
    ELSE LET key == CHOOSE k \in keys : TRUE
             composed == { x \in extractors : x[1] = "sub" /\ x[2] = key }
             options ==
                IF key[1] = "Sub"
                THEN {None} \cup { Some(s) : s \in NestedTargets({ x[3] : x \in composed }) }
                ELSE Options(key[1])
         IN  { [k \in keys |-> IF k = key THEN o ELSE rest[k]] :
                    rest \in NestedOver(keys \ {key}, extractors), o \in options }

NestedTargets(extractors) ==
    NestedOver({ x[3] : x \in { y \in extractors : y[1] = "wrapped" } }
                    \cup { x[2] : x \in { y \in extractors : y[1] = "sub" } },
               extractors)

\* The targets of a schema.
TargetsOf(sch) == NestedTargets({ sch[n].field_extractor : n \in DOMAIN sch })

\* No expression is at work while the schema is built.
IdleExpr == Operation(LiteralField("f"), "Eq", LiteralValue(ValueNull))

InitBuild ==
    /\ builder = SchemaBuilder_new
    /\ calls = <<>>
    /\ extracted = NotRun
    /\ answers = <<>>
    /\ schema = <<>>
    /\ target = <<>>
    /\ expr = IdleExpr
    /\ vres = NotRun
    /\ xres = NoRun
    /\ ParserIdle

\* builder.with_<t>_field(name, extractor)
WithField ==
    /\ builder.open
    /\ Len(calls) < MaxCalls
    /\ \E t \in BuilderType, n \in BuildNames :
        \E x \in UserExtractors(t) :
            /\ builder' = field_extractor_builder(builder, t, n, x)
            /\ calls' = Append(calls, <<t, n, x>>)
    /\ UNCHANGED <<engineVars, parserVars, answers, extracted>>

\* builder.build(): the builder is consumed
Build ==
    /\ builder.open
    /\ schema' = build(builder)
    /\ builder' = Built
    /\ UNCHANGED <<target, expr, vres, xres, parserVars, answers, calls, extracted>>

\* The engine resolves a name on the built schema and calls the field's
\* extractor on a target.
Extract ==
    /\ ~builder.open
    /\ extracted = NotRun
    /\ \E n \in BuildNames, tgt \in TargetsOf(schema) :
        /\ target' = tgt
        /\ extracted' = <<n, extract_literal(schema, LiteralField(n), tgt)>>
    /\ UNCHANGED <<schema, expr, vres, xres, parserVars, answers, builder, calls>>

NextBuild == WithField \/ Build \/ Extract

SpecBuild == InitBuild /\ [][NextBuild]_vars

\* The registrations made under a name, in order.
CallsOf(n) == SelectSeq(calls, LAMBDA c : c[2] = n)

\* C13 (builder policy): after build(), get_field(name) returns the Field
\* (type tag and extractor) of the last registration made under that name,
\* None for a name never registered, and the schema holds exactly one entry
\* per distinct registered name.
C13_LastRegistrationWins ==
    ~builder.open =>
        /\ \A n \in BuildNames \cup {"h"} :
            LET mine == CallsOf(n)
            IN  IF mine = <<>> THEN get_field(schema, n) = None
                ELSE LET last == mine[Len(mine)]
                     IN  get_field(schema, n) =
                            Some(Field(last[1], wrapped_extractor(last[1], last[3])))
        /\ DOMAIN schema = { calls[i][2] : i \in 1..Len(calls) }

\* C13 witness: f was registered twice, with different types, before
\* build(), and g never.
C13_Witness ==
    /\ ~builder.open
    /\ Len(calls) = 2
    /\ calls[1][2] = "f"
    /\ calls[2][2] = "f"
    /\ calls[1][1] = "String"
    /\ calls[2][1] = "Number"
    /\ schema["f"].field_type = "Number"

\* C14 (extractor typing): the Value a field's extractor returns on a target
\* is Null when the user's extractor returned None there, and otherwise has
\* the type tag the Field declares.
C14_ExtractorTyping ==
    (extracted # NotRun /\ IsOk(extracted[2])) =>
        LET n == extracted[1]
            value == extracted[2][2]
            mine == CallsOf(n)
            user == mine[Len(mine)][3]
        IN  IF target[user] = None THEN is_null(value)
            ELSE get_type(value) = schema[n].field_type /\ ~is_null(value)

\* C14 witness: f was registered as a String and then as a DateTimeList; its
\* extractor was called on a target with a list and returned a DateTimeList.
C14_Witness ==
    /\ extracted # NotRun
    /\ extracted[1] = "f"
    /\ Len(calls) = 2
    /\ calls[1] = <<"String", "f", <<"String", 1>>>>
    /\ calls[2][1] = "DateTimeList"
    /\ IsOk(extracted[2])
    /\ extracted[2][2].type = "DateTimeList"

-----------------------------------------------------------------------------
(* Sub-schemas (specification SpecNested): a schema is built, registered   *)
(* as a sub-schema of the next builder, and so on; then a query runs.      *)

\* The most registrations made in all, over the builders of a nesting.
MaxNested == 3

\* The fields of a record that are not records: f: String and g: Number.
LeafFields == { <<"String", "f">>, <<"Number", "g">> }

\* The fields of a record that are records.
ParentNames == {"p", "q"}

\* The parent extractor of a field: |instance| Some(&instance.field) or
\* |instance| instance.field.as_ref()
ParentExtractor(field_name) == <<"Sub", field_name>>

\* builder.with_string_field("f", ..) / builder.with_number_field("g", ..)
WithLeafField ==
    /\ builder.open
    /\ Len(calls) < MaxNested
    /\ \E leaf \in LeafFields :
        LET user == <<leaf[1], 1>>
        IN  /\ builder' = field_extractor_builder(builder, leaf[1], leaf[2], user)
            /\ calls' = Append(calls, <<leaf[1], leaf[2], user>>)
    /\ UNCHANGED <<engineVars, parserVars, answers, extracted>>

\* builder.with_sub_field(name, &sub_schema, parent_extractor), the
\* sub-schema being the schema built last
WithSubField ==
    /\ builder.open
    /\ Len(calls) < MaxNested
    /\ schema # <<>>
    /\ \E field_name \in ParentNames :
        /\ builder' = with_sub_field(builder, field_name, schema, ParentExtractor(field_name))
        /\ calls' = Append(calls, <<"Sub", field_name, ParentExtractor(field_name), schema>>)
    /\ UNCHANGED <<engineVars, parserVars, answers, extracted>>

\* SchemaBuilder::new() for the record that holds the records built so far
NewBuilder ==
    /\ ~builder.open
    /\ xres = NoRun
    /\ schema # <<>>
    /\ Len(calls) < MaxNested
    /\ builder' = SchemaBuilder_new
    /\ UNCHANGED <<engineVars, parserVars, answers, calls, extracted>>

\* The literals a field is compared with.
QueryLiterals ==
    { LiteralValue(Value("String", <<"a">>)), LiteralValue(Value("Number", Num(1))) }

\* Engine::new(schema), then validate and execute of name == literal or
\* name != literal on a target.
Query ==
    /\ ~builder.open
    /\ xres = NoRun
    /\ \E n \in DOMAIN schema \cup {"f"}, op \in {"Eq", "Ne"}, l \in QueryLiterals :
        \E tgt \in TargetsOf(schema) :
            LET asked == Operation(LiteralField(n), op, l)
            IN  /\ expr' = asked
                /\ target' = tgt
                /\ vres' = validate(schema, asked)
                /\ xres' = execute(schema, asked, tgt)
    /\ UNCHANGED <<schema, parserVars, answers, builderVars>>

NextNested == WithLeafField \/ WithSubField \/ Build \/ NewBuilder \/ Query

SpecNested == InitBuild /\ [][NextNested]_vars

\* The last registration was of a sub-schema, on the builder now open.
SubRegistered ==
    /\ builder.open
    /\ builder.fields # <<>>
    /\ calls # <<>>
    /\ calls[Len(calls)][1] = "Sub"

\* Flattening: after with_sub_field(P, sub_schema, parent), every field F of
\* the sub-schema is in the builder at P:F with F's type tag, and on every
\* target its extractor returns Null when the parent is absent and what F's
\* extractor returns on the parent otherwise.
Flattened ==
    SubRegistered =>
        LET call == calls[Len(calls)]
            P == call[2]
            parent == call[3]
            sub_schema == call[4]
            fields == builder.fields
        IN  \A F \in DOMAIN sub_schema :
                LET key == P \o ":" \o F
                IN  /\ key \in DOMAIN fields
                    /\ fields[key].field_type = sub_schema[F].field_type
                    /\ \A tgt \in TargetsOf(fields) :
                        field_extractor(fields[key], tgt) =
                            IF tgt[parent] = None THEN ValueNull
                            ELSE field_extractor(sub_schema[F], tgt[parent][1])

\* The paths of the flattened fields: the parents from the outermost on.
ParentPaths == SeqsUpTo(ParentNames, MaxNested)

RECURSIVE PathName(_, _)
\* p:q:f for the parents <<p, q>> and the leaf f
PathName(parents, leaf_name) ==
    IF parents = <<>> THEN leaf_name
    ELSE parents[1] \o ":" \o PathName(Tail(parents), leaf_name)

RECURSIVE Descend(_, _, _)
\* What is found at a path of a target: None when a parent or the leaf is
\* absent, else Some(payload).
Descend(parents, leaf, tgt) ==
    IF parents = <<>> THEN tgt[<<leaf[1], 1>>]
    ELSE LET parent == tgt[ParentExtractor(parents[1])]
         IN  IF parent = None THEN None ELSE Descend(Tail(parents), leaf, parent[1])

\* Execution on a nested path: a validated name == literal is true exactly
\* when every parent on the path is present and the leaf holds the literal's
\* payload, and name != literal is its negation (so an absent parent gives
\* false for ==).
NestedExecution ==
    \A parents \in ParentPaths, leaf \in LeafFields :
        (/\ Executed
         /\ vres = Ok
         /\ expr.lhs = LiteralField(PathName(parents, leaf[2]))) =>
            LET found == Descend(parents, leaf, target)
                same == found # None /\ found[1] = expr.rhs[2].val
            IN  xres.res = OkBool(same = (expr.op = "Eq"))

\* C12 (sub-schema flattening): a sub-schema registered under P puts each of
\* its fields F at P:F, recursively, with F's type tag, and the flattened
\* extractor returns the child's value when the parent is present and Null
\* when a parent is absent at any level; p:q:f == "a" is true when the
\* nested value is "a" and false when a parent is None.
C12_SubSchemaFlattening == Flattened /\ NestedExecution

\* C12 witness: p:q:f == "a" was executed on a target whose p is present and
\* whose q inside it is None, and gave Ok(false).
C12_Witness ==
    /\ expr = Operation(LiteralField("p:q:f"), "Eq", LiteralValue(Value("String", <<"a">>)))
    /\ vres = Ok
    /\ target[ParentExtractor("p")] # None
    /\ target[ParentExtractor("p")][1][ParentExtractor("q")] = None
    /\ xres.res = OkBool(FALSE)

\* p:q:f == "a" was executed on a target whose nested value is "a", and gave
\* Ok(true).
NestedValueFound ==
    /\ expr = Operation(LiteralField("p:q:f"), "Eq", LiteralValue(Value("String", <<"a">>)))
    /\ Descend(<<"p", "q">>, <<"String", "f">>, target) = Some(<<"a">>)
    /\ xres.res = OkBool(TRUE)

-----------------------------------------------------------------------------
(* Repeated calls on one engine (specification SpecRepeat)                 *)

\* The most execute calls made on the engine.
MaxAsks == 3

\* Expressions over f: Number whose result depends on the target, that
\* fail, and that nest.
RepeatPool ==
    LET equal == Operation(LiteralField("f"), "Eq", LiteralValue(Value("Number", Num(1))))
        unequal == Operation(LiteralField("f"), "Ne", LiteralValue(Value("Number", Num(1))))
        unknown == Operation(LiteralField("g"), "Eq", LiteralValue(Value("Number", Num(1))))
    IN  { equal, unknown, Not(equal), And(<<unequal, unknown>>) }

InitRepeat ==
    /\ schema = [n \in FieldNames |-> Field("Number", wrapped_extractor("Number", n))]
    /\ target \in Targets(schema)
    /\ expr \in RepeatPool
    /\ vres = NotRun
    /\ xres = NoRun
    /\ ParserIdle
    /\ BuilderIdle
    /\ answers = <<>>

RECURSIVE FieldsOf(_)
RECURSIVE FieldsOfEach(_, _)
\* The names an expression looks up.
FieldsOfEach(subs, i) ==
    IF i > Len(subs) THEN {} ELSE FieldsOf(subs[i]) \cup FieldsOfEach(subs, i + 1)
FieldsOf(e) ==
    IF e.kind = "Operation"
    THEN { l[2] : l \in { x \in {e.lhs, e.rhs} : x[1] = "LiteralField" } }
    ELSE FieldsOfEach(e.subs, 1)

\* A variant of Ask in which a lookup takes the field out of the schema.
AskTaking ==
    /\ Len(answers) < MaxAsks
    /\ \E e \in RepeatPool, tgt \in Targets(schema) :
        /\ expr' = e
        /\ target' = tgt
        /\ vres' = NotRun
        /\ xres' = execute(schema, e, tgt)
        /\ answers' = Append(answers, <<e, tgt, xres'.res>>)
        /\ schema' = [n \in DOMAIN schema \ FieldsOf(e) |-> schema[n]]
    /\ UNCHANGED <<parserVars, builderVars>>

\* engine.execute(&e, &tgt) for an AST and a target of the caller's choice
Ask ==
    /\ Len(answers) < MaxAsks
    /\ \E e \in RepeatPool, tgt \in Targets(schema) :
        /\ expr' = e
        /\ target' = tgt
        /\ vres' = NotRun
        /\ xres' = execute(schema, e, tgt)
        /\ answers' = Append(answers, <<e, tgt, xres'.res>>)
    /\ UNCHANGED <<schema, parserVars, builderVars>>

NextRepeat == Validate \/ Ask

SpecRepeat == InitRepeat /\ [][NextRepeat]_vars

-----------------------------------------------------------------------------
(* Properties of the parser on single texts (specification SpecParse)      *)

\* (a AND)
DanglingAnd == <<"(", "a", " ", "A", "N", "D", ")">>

\* C16 (as claimed): parsing (a AND) fails, and the error carries the
\* position of the closing parenthesis, offset 6.
C16_ErrorAtParen ==
    (text = DanglingAnd /\ parsed # NotRun) =>
        (parsed[1] = "Err" /\ parsed[3] = 6)

\* Parsing (a AND) fails.
DanglingAndFails ==
    (text = DanglingAnd /\ parsed # NotRun) => parsed[1] = "Err"


----------------------------------------------------------------------------
\* Groups by construction: the children of one parenthesis level, the
\* keyword text between each two of them and the text before the closing
\* parenthesis.

GroupForms ==
    UNION { { [children |-> cs, keywords |-> ks, closing |-> c] :
                cs \in [1..n -> ChildTexts],
                ks \in [1..(n - 1) -> KeywordTexts],
                c \in ClosingTexts } : n \in 2..MaxChildren }

RECURSIVE FormBody(_, _)
FormBody(form, i) ==
    IF i = 1 THEN form.children[1]
    ELSE FormBody(form, i - 1) \o form.keywords[i - 1] \o form.children[i]

FormText(form) == <<"(">> \o FormBody(form, Len(form.children)) \o form.closing \o <<")">>

\* The spellings of the two separator words among the keyword and closing
\* texts, and the separators written at the level of a form.
AndWords == { <<" ", "A", "N", "D", " ">>, <<" ", "a", "n", "d", " ">>, <<" ", "A", "N", "D">> }
OrWords == { <<" ", "O", "R", " ">> }

WordsOf(form) ==
    ({ form.keywords[i] : i \in DOMAIN form.keywords } \cup {form.closing})
        \cap (AndWords \cup OrWords)

Mixed(form) == WordsOf(form) \cap AndWords # {} /\ WordsOf(form) \cap OrWords # {}

\* The texts of the groups with both words at their level, with no word but
\* AND, with no word but OR, and with AND after the first child, nothing
\* after the second and nothing before the closing parenthesis.
MixedGroupTexts == { FormText(form) : form \in { f \in GroupForms : Mixed(f) } }
AndGroupTexts == { FormText(form) : form \in { f \in GroupForms : WordsOf(f) \subseteq AndWords } }
OrGroupTexts == { FormText(form) : form \in { f \in GroupForms : WordsOf(f) \subseteq OrWords } }
AndOnceTexts ==
    { FormText(form) : form \in { f \in GroupForms :
        /\ Len(f.children) = 3
        /\ f.keywords = << <<" ", "A", "N", "D", " ">>, <<" ">> >>
        /\ f.closing = <<>> } }

\* Every And and Or node of a tree has at least two children.
RECURSIVE AtLeastTwo(_)
AtLeastTwo(e) ==
    \/ e.kind = "Operation"
    \/ /\ e.kind \in {"And", "Or"} => Len(e.subs) >= 2
       /\ \A i \in DOMAIN e.subs : AtLeastTwo(e.subs[i])

\* C17: every And and Or node that parse returns has at least two children;
\* a group that parses is an And when the separators written at its level are
\* all AND and an Or when they are all OR; a group with both an AND and an OR
\* separator at the same level is a parse error.
C17_HomogeneousGroups ==
    parsed # NotRun =>
        /\ parsed[1] = "Ok" => AtLeastTwo(parsed[2])
        /\ text \in MixedGroupTexts => parsed[1] = "Err"
        /\ (text \in GroupTexts /\ parsed[1] = "Ok") =>
              \/ parsed[2].kind = "And" /\ text \in AndGroupTexts
              \/ parsed[2].kind = "Or" /\ text \in OrGroupTexts

\* A group of three children has parsed as an And, the second separator
\* left out, one child being an Or group of its own level.
C17_Witness ==
    /\ parsed # NotRun
    /\ parsed[1] = "Ok"
    /\ text \in AndOnceTexts
    /\ parsed[2].kind = "And"
    /\ Len(parsed[2].subs) = 3
    /\ \E i \in 1..3 : parsed[2].subs[i].kind = "Or"

\* A group with both words at its level has been parsed and refused.
MixedGroupFails == parsed # NotRun /\ parsed[1] = "Err" /\ text \in MixedGroupTexts


----------------------------------------------------------------------------
\* Literal precedence, on the operations a == r for r a word or an instant.

Compared(r) == <<"a", " ", "=", "=", " ">> \o r

\* The words that are identifiers [A-Za-z_][A-Za-z_0-9:]*.
IdentifierTexts ==
    { w \in WordTexts : w[1] \in FieldStart /\ \A i \in 2..Len(w) : w[i] \in FieldRest }

Folded(w) == [i \in DOMAIN w |-> to_ascii_lowercase(w[i])]

ReservedWords == { <<"n", "u", "l", "l">>, <<"t", "r", "u", "e">>, <<"f", "a", "l", "s", "e">> }

\* The identifiers that are longer than a reserved word they begin with.
BeginsReserved(w) ==
    \E r \in ReservedWords : Len(w) > Len(r) /\ SubSeq(Folded(w), 1, Len(r)) = r

\* The literal a word stands for: the reserved words in any letter case are
\* Null and the Booleans, every other identifier is a field reference.
WordLiteral(w) ==
    CASE Folded(w) = <<"n", "u", "l", "l">> -> LiteralValue(ValueNull)
      [] Folded(w) = <<"t", "r", "u", "e">> -> LiteralValue(Value("Boolean", TRUE))
      [] Folded(w) = <<"f", "a", "l", "s", "e">> -> LiteralValue(Value("Boolean", FALSE))
      [] OTHER -> LiteralField(w)

WordParsed(w) ==
    (text = Compared(w) /\ parsed # NotRun) =>
        parsed = ParseOk(Operation(LiteralField(<<"a">>), "Eq", WordLiteral(w)))

\* An instant on the right of a == that parses is a DateTime value.
InstantParsed(d) ==
    (text = Compared(d) /\ parsed # NotRun /\ parsed[1] = "Ok") =>
        /\ parsed[2].kind = "Operation"
        /\ parsed[2].rhs[1] = "LiteralValue"
        /\ parsed[2].rhs[2].type = "DateTime"

\* C18: null, true and false in any letter case parse as the Null and Boolean
\* literals, an RFC3339 instant parses as a DateTime and not as the number of
\* its leading digits, and every other identifier [A-Za-z_][A-Za-z_0-9:]*
\* parses as a field reference.
C18_LiteralPrecedence ==
    /\ \A w \in IdentifierTexts : WordParsed(w)
    /\ \A d \in DateTimeTexts : InstantParsed(d)

\* The same without the identifiers that begin with a reserved word.
PrecedenceOfOtherWords ==
    /\ \A w \in { i \in IdentifierTexts : ~BeginsReserved(i) } : WordParsed(w)
    /\ \A d \in DateTimeTexts : InstantParsed(d)

\* a == nullable has been parsed and refused.
ReservedPrefixFails ==
    /\ text = Compared(<<"n", "u", "l", "l", "a", "b", "l", "e">>)
    /\ parsed # NotRun
    /\ parsed[1] = "Err"

\* a == 1999-07-13T01:02:03.5Z has been parsed into a DateTime.
InstantIsDateTime ==
    /\ text = Compared(<<"1", "9", "9", "9", "-", "0", "7", "-", "1", "3", "T",
                         "0", "1", ":", "0", "2", ":", "0", "3", ".", "5", "Z">>)
    /\ parsed # NotRun
    /\ parsed[1] = "Ok"
    /\ parsed[2].rhs[2].type = "DateTime"


----------------------------------------------------------------------------
\* SpecContain: In between two String operands and between two Raw
\* operands, each a literal or the field f, over every text of up to MaxRun
\* characters of two letters and every run of up to MaxRun bytes of two
\* values, the empty ones included.

MaxRun == 2

RunsOver(alphabet) == UNION { [1..n -> alphabet] : n \in 0..MaxRun }

ContainPayloads(t) == IF t = "String" THEN RunsOver({"a", "b"}) ELSE RunsOver({1, 2})

ContainOperands(t) ==
    { LiteralValue(Value(t, v)) : v \in ContainPayloads(t) } \cup {LiteralField("f")}

InitContain ==
    /\ \E t \in {"String", "Raw"} :
          /\ schema = [n \in FieldNames |-> Field(t, wrapped_extractor(t, n))]
          /\ target \in { [n \in FieldNames |-> o] :
                            o \in {None} \cup { Some(v) : v \in ContainPayloads(t) } }
          /\ expr \in { Operation(l, "In", r) : l, r \in ContainOperands(t) }
    /\ vres = NotRun
    /\ xres = NoRun
    /\ ParserIdle
    /\ BuilderIdle
    /\ answers = <<>>

SpecContain == InitContain /\ [][Next]_vars

\* needle occurs in hay as a contiguous run starting after some offset.
Occurs(needle, hay) ==
    \E offset \in 0..(Len(hay) - Len(needle)) :
        \A j \in 1..Len(needle) : hay[offset + j] = needle[j]

\* In was executed on a single operation whose operands are both of type t.
InExecuted(t) ==
    /\ Executed
    /\ expr.kind = "Operation"
    /\ expr.op = "In"
    /\ IsOk(LhsValue(expr))
    /\ IsOk(RhsValue(expr))
    /\ LhsValue(expr)[2].type = t
    /\ RhsValue(expr)[2].type = t

\* C19: on two non-null String operands, and on two non-null Raw operands,
\* In is Ok(true) exactly when the lhs occurs as a contiguous run inside the
\* rhs; an empty lhs is contained in every rhs and an lhs longer than the rhs
\* in none.
C19_InDirection ==
    \A t \in {"String", "Raw"} :
        InExecuted(t) =>
            LET lhv == LhsValue(expr)[2].val
                rhv == RhsValue(expr)[2].val
            IN  /\ xres.res = OkBool(Occurs(lhv, rhv))
                /\ Len(lhv) = 0 => xres.res = OkBool(TRUE)
                /\ Len(lhv) > Len(rhv) => xres.res = OkBool(FALSE)

\* The Raw literal |02| was found in the run 01 02 the field holds, at its
\* end, where the operands exchanged would not match.
C19_Witness ==
    /\ InExecuted("Raw")
    /\ expr.lhs = LiteralValue(Value("Raw", <<2>>))
    /\ expr.rhs = LiteralField("f")
    /\ target["f"] = Some(<<1, 2>>)
    /\ xres.res = OkBool(TRUE)

\* The text "b" was found inside the text "ab", and the empty text inside
\* the empty text.
SubstringFound ==
    /\ InExecuted("String")
    /\ LhsValue(expr)[2].val = <<"b">>
    /\ RhsValue(expr)[2].val = <<"a", "b">>
    /\ xres.res = OkBool(TRUE)


----------------------------------------------------------------------------
\* String literals through the serializer and back, on the operations whose
\* right operand parsed as a String.

\* The characters the string rule of the parser accepts after a backslash.
ParserEscapes == {"\\", "/", "\"", "b", "f", "n", "r", "t"}

\* From offset i on, every backslash of q starts an escape of the parser.
RECURSIVE OnlyParserEscapes(_, _)
OnlyParserEscapes(q, i) ==
    IF i > Len(q) THEN TRUE
    ELSE IF q[i] = "\\"
         THEN i < Len(q) /\ q[i + 1] \in ParserEscapes /\ OnlyParserEscapes(q, i + 2)
         ELSE OnlyParserEscapes(q, i + 1)

\* The parse gave an operation with a String on its right.
StringParsed ==
    /\ parsed # NotRun
    /\ parsed[1] = "Ok"
    /\ parsed[2].kind = "Operation"
    /\ parsed[2].rhs[1] = "LiteralValue"
    /\ parsed[2].rhs[2].type = "String"

\* The serialized String is written with the escapes of the parser only and
\* parses back to the same String.
StringInverted ==
    /\ serialized # NotRun =>
          /\ serialized[Len(serialized)] = "\""
          /\ OnlyParserEscapes(serialized, 1)
    /\ reparsed # NotRun =>
          /\ reparsed[1] = "Ok"
          /\ reparsed[2].kind = "Operation"
          /\ reparsed[2].rhs = parsed[2].rhs

\* C20: for every String the parser produces, the serializer writes a
\* double-quoted token that uses only the escapes \\ \/ \" \b \f \n \r \t,
\* and parsing that token yields the same String again.
C20_StringInverse == StringParsed => StringInverted

\* The characters the serializer writes in a form the parser does not read.
DebugOnly == {"BS", "FF", "NUL"}

\* The same for the Strings without a backspace, a form feed or a NUL.
StringInverseElsewhere ==
    (StringParsed /\ \A i \in 1..Len(parsed[2].rhs[2].val) : parsed[2].rhs[2].val[i] \notin DebugOnly)
        => StringInverted

\* a == "\b" was parsed, serialized as a == "\u{8}" and refused.
BackspaceRefused ==
    /\ text = <<"a", " ", "=", "=", " ", "\"", "\\", "b", "\"">>
    /\ StringParsed
    /\ parsed[2].rhs[2].val = <<"BS">>
    /\ serialized = <<"a", " ", "=", "=", " ", "\"", "\\", "u", "{", "8", "}", "\"">>
    /\ reparsed # NotRun
    /\ reparsed[1] = "Err"

\* a == "\n\"" was parsed, serialized with the same two escapes and parsed
\* back to the same String.
EscapesInverted ==
    /\ StringParsed
    /\ parsed[2].rhs[2].val = <<"LF", "\"">>
    /\ serialized = <<"a", " ", "=", "=", " ", "\"", "\\", "n", "\\", "\"", "\"">>
    /\ reparsed = parsed


----------------------------------------------------------------------------
\* Regex literals through the serializer and back, on the operations whose
\* right operand parsed as a Regex.

\* p with a backslash written before every slash.
RECURSIVE SlashesEscaped(_)
SlashesEscaped(p) ==
    IF p = <<>> THEN <<>>
    ELSE (IF Head(p) = "/" THEN <<"\\", "/">> ELSE <<Head(p)>>) \o SlashesEscaped(Tail(p))

EndsWith(q, token) ==
    Len(q) >= Len(token) /\ SubSeq(q, Len(q) - Len(token) + 1, Len(q)) = token

\* The parse gave an operation with a Regex on its right.
RegexParsed ==
    /\ parsed # NotRun
    /\ parsed[1] = "Ok"
    /\ parsed[2].kind = "Operation"
    /\ parsed[2].rhs[1] = "LiteralValue"
    /\ parsed[2].rhs[2].type = "Regex"

\* C21: for every pattern p the parser produces, the serializer writes
\* / p / with every slash of p preceded by a backslash, and parsing that
\* token yields p again.
C21_RegexInverse ==
    RegexParsed =>
        /\ serialized # NotRun =>
              EndsWith(serialized, <<"/">> \o SlashesEscaped(parsed[2].rhs[2].val) \o <<"/">>)
        /\ reparsed # NotRun =>
              /\ reparsed[1] = "Ok"
              /\ reparsed[2].kind = "Operation"
              /\ reparsed[2].rhs = parsed[2].rhs

\* The pattern of a backslash and a slash, written /\\//, was serialized
\* as /\\// and parsed back to itself.
C21_Witness ==
    /\ RegexParsed
    /\ parsed[2].rhs[2].val = <<"\\", "/">>
    /\ EndsWith(serialized, <<"/", "\\", "\\", "/", "/">>)
    /\ reparsed = parsed


----------------------------------------------------------------------------
\* SpecNulls: operations with the field or the Null literal on at least one
\* side and any literal on the other, DateTimeLists of 0 to MaxRangeLen
\* instants included, on targets whose extractor returns None or a value.

\* The DateTimeLists of one instant repeated.
UniformRanges ==
    { r \in RangeLists : \A i \in DOMAIN r : r[i] = [secs |-> 1, nanos |-> 0] }

NullOperands == { LiteralField("f"), LiteralValue(ValueNull) }

OtherOperands ==
    Literals \cup { LiteralValue(Value("DateTimeList", r)) : r \in UniformRanges }

InitNulls ==
    /\ schema \in Schemas
    /\ target \in Targets(schema)
    /\ expr \in { Operation(l, op, r) : l \in NullOperands, op \in Operator, r \in OtherOperands }
                  \cup { Operation(l, op, r) : l \in OtherOperands, op \in Operator, r \in NullOperands }
    /\ vres = NotRun
    /\ xres = NoRun
    /\ ParserIdle
    /\ BuilderIdle
    /\ answers = <<>>

SpecNulls == InitNulls /\ [][Next]_vars

\* The operation was executed, both operands evaluated and at least one of
\* them to Null.
NullOperandExecuted ==
    /\ Executed
    /\ IsOk(LhsValue(LeafOf(expr)))
    /\ IsOk(RhsValue(LeafOf(expr)))
    /\ is_null(LhsValue(LeafOf(expr))[2]) \/ is_null(RhsValue(LeafOf(expr))[2])

\* C22: whenever at least one operand of an operation evaluates to Null,
\* execute returns Ok, never InvalidOperatorError and never
\* InvalidDateRangeError, for every operator and every type of the other
\* operand, whatever validate says of the operation.
C22_NullBeforeDispatch ==
    NullOperandExecuted => xres.res \in { OkBool(TRUE), OkBool(FALSE) }

\* The DateTime field, whose extractor returned None, was tested with In
\* against a DateTimeList of three instants: Ok(false).
C22_Witness ==
    /\ expr.kind = "Operation"
    /\ NullOperandExecuted
    /\ schema["f"].field_type = "DateTime"
    /\ target["f"] = None
    /\ expr.lhs = LiteralField("f")
    /\ expr.op = "In"
    /\ expr.rhs[2].type = "DateTimeList"
    /\ Len(expr.rhs[2].val) = 3
    /\ xres.res = OkBool(FALSE)

\* An operation validate refused with InvalidOperatorError, the Number field
\* compared by Gt with a String, was executed on a target without the
\* number: Ok(false).
RefusedStillAnswers ==
    /\ expr.kind = "Operation"
    /\ NullOperandExecuted
    /\ vres # NotRun
    /\ vres[1] = "InvalidOperatorError"
    /\ schema["f"].field_type = "Number"
    /\ target["f"] = None
    /\ expr.lhs = LiteralField("f")
    /\ expr.op = "Gt"
    /\ expr.rhs[2].type = "String"
    /\ xres.res = OkBool(FALSE)

\* With the number present the same operation is an InvalidOperatorError.
PresentIsRefused ==
    /\ expr.kind = "Operation"
    /\ Executed
    /\ target["f"] # None
    /\ expr.lhs = LiteralField("f")
    /\ expr.op = "Gt"
    /\ xres.res[1] = "InvalidOperatorError"


----------------------------------------------------------------------------
\* Identifiers that begin with a reserved word, as operands.

\* The field names a tree refers to.
RECURSIVE FieldRefs(_)
FieldRefs(e) ==
    IF e.kind = "Operation"
    THEN { o[2] : o \in { x \in {e.lhs, e.rhs} : x[1] = "LiteralField" } }
    ELSE UNION { FieldRefs(e.subs[i]) : i \in DOMAIN e.subs }

SeparatorRead ==
    { InSecondChild(<<"A", "N", "D">>, <<"n", "u", "l", "l", "a", "n", "d">>),
      InSecondChild(<<"O", "R">>, <<"t", "r", "u", "e", "o", "r">>) }

\* What the parser made of the identifier in those texts: the literal of
\* its reserved word as the right operand of the second of three children.
ReadAsLiteral ==
    /\ parsed[1] = "Ok"
    /\ parsed[2].kind \in {"And", "Or"}
    /\ Len(parsed[2].subs) = 3
    /\ parsed[2].subs[2].rhs \in { LiteralValue(ValueNull), LiteralValue(Value("Boolean", TRUE)) }

SeparatorReadFromName ==
    /\ text = InSecondChild(<<"A", "N", "D">>, <<"n", "u", "l", "l", "a", "n", "d">>)
    /\ parsed # NotRun
    /\ parsed[1] = "Ok"
    /\ parsed[2].kind = "And"
    /\ Len(parsed[2].subs) = 3
    /\ parsed[2].subs[2].rhs = LiteralValue(ValueNull)


----------------------------------------------------------------------------
\* SpecFormat: an AST built by the caller, with Boolean and BooleanList
\* literals, is validated, executed, serialized and the serialized text
\* parsed; next to it the parser reads the texts of lists of true and false.
\* The name of the field is written as the parser returns names, character
\* by character.

FormatNames == { <<"f">> }

\* The most elements of a BooleanList.
MaxBools == 2

BooleanLists == SeqsUpTo({TRUE, FALSE}, MaxBools)

BooleanOperands ==
    { LiteralValue(Value("Boolean", b)) : b \in {TRUE, FALSE} } \cup { LiteralField(n) : n \in FormatNames }

BooleanListOperands == { LiteralValue(Value("BooleanList", l)) : l \in BooleanLists }

\* a == [ words ], and a == true.
WordListTexts ==
    { Compared(<<"[">> \o l \o <<"]">>) : l \in Lists(WordElements, Separators, MaxItems) }

InitFormat ==
    /\ schema = [n \in FormatNames |-> Field("Boolean", wrapped_extractor("Boolean", n))]
    /\ target \in { [n \in FormatNames |-> o] : o \in {None, Some(TRUE), Some(FALSE)} }
    /\ expr \in { Operation(l, op, r) :
                    l \in BooleanOperands, op \in {"In", "Eq"},
                    r \in BooleanListOperands \cup BooleanOperands }
    /\ vres = NotRun
    /\ xres = NoRun
    /\ text \in WordListTexts \cup { Compared(<<"t", "r", "u", "e">>) }
    /\ parsed = NotRun
    /\ serialized = NotRun
    /\ reparsed = NotRun
    /\ trailing = NoText
    /\ tparsed = NotRun
    /\ BuilderIdle
    /\ answers = <<>>

\* Serialize::fmt(&expr) of the AST the caller built
Format ==
    /\ serialized = NotRun
    /\ serialized' = Expression_fmt(expr)
    /\ UNCHANGED <<engineVars, builderVars, answers, text, parsed, reparsed, trailing, tparsed>>

NextFormat == Validate \/ Execute \/ Parse \/ Format \/ Reparse

SpecFormat == InitFormat /\ [][NextFormat]_vars

\* The text of a BooleanList: its elements as true and false, a comma and a
\* space between them, in brackets.
RECURSIVE WordsJoined(_)
WordsJoined(l) ==
    IF l = <<>> THEN <<>>
    ELSE (IF Head(l) THEN <<"t", "r", "u", "e">> ELSE <<"f", "a", "l", "s", "e">>)
            \o (IF Len(l) > 1 THEN <<",", " ">> ELSE <<>>) \o WordsJoined(Tail(l))

HoldsBooleanList == expr.rhs \in BooleanListOperands

\* C24: no text parses to a BooleanList, and a list of true and false at a
\* literal position is a parse error; validate accepts Boolean IN
\* BooleanList and execute answers it by membership; the serializer prints a
\* BooleanList as its words in brackets; and the serialized text of an AST
\* that holds a BooleanList literal is rejected by parse.
C24_NoBooleanListLiteral ==
    /\ (parsed # NotRun /\ parsed[1] = "Ok") =>
          \A o \in {parsed[2].lhs, parsed[2].rhs} :
              o[1] = "LiteralValue" => o[2].type # "BooleanList"
    /\ (parsed # NotRun /\ text \in WordListTexts) => parsed[1] = "Err"
    /\ (HoldsBooleanList /\ expr.op = "In" /\ vres # NotRun) => vres = Ok
    /\ (HoldsBooleanList /\ expr.op = "In" /\ Executed /\ ~is_null(LhsValue(expr)[2])) =>
          xres.res = OkBool(\E i \in DOMAIN expr.rhs[2].val :
                                expr.rhs[2].val[i] = LhsValue(expr)[2].val)
    /\ (HoldsBooleanList /\ serialized # NotRun) =>
          EndsWith(serialized, <<" ", "[">> \o WordsJoined(expr.rhs[2].val) \o <<"]">>)
    /\ (HoldsBooleanList /\ reparsed # NotRun) => reparsed[1] = "Err"

\* true IN [true, false] was validated, executed to Ok(true), serialized as
\* true IN [true, false] and the serialized text refused by parse.
C24_Witness ==
    /\ expr = Operation(LiteralValue(Value("Boolean", TRUE)), "In",
                        LiteralValue(Value("BooleanList", <<TRUE, FALSE>>)))
    /\ vres = Ok
    /\ xres.res = OkBool(TRUE)
    /\ serialized = <<"t", "r", "u", "e", " ", "I", "N", " ",
                      "[", "t", "r", "u", "e", ",", " ", "f", "a", "l", "s", "e", "]">>
    /\ reparsed # NotRun
    /\ reparsed[1] = "Err"

\* a == [true, false] has been parsed and refused.
WordListRefused ==
    /\ text = Compared(<<"[", "t", "r", "u", "e", ",", " ", "f", "a", "l", "s", "e", "]">>)
    /\ parsed # NotRun
    /\ parsed[1] = "Err"

\* An AST without a list, f == true, was serialized and parsed back.
BooleanFormatted ==
    /\ expr = Operation(LiteralField(<<"f">>), "Eq", LiteralValue(Value("Boolean", TRUE)))
    /\ reparsed = ParseOk(expr)


\* The literal values a tree holds.
RECURSIVE ValuesOf(_)
ValuesOf(e) ==
    IF e.kind = "Operation"
    THEN { o[2] : o \in { x \in {e.lhs, e.rhs} : x[1] = "LiteralValue" } }
    ELSE UNION { ValuesOf(e.subs[i]) : i \in DOMAIN e.subs }

\* No text of the parser's inputs parses to a tree that holds a BooleanList.
NoTextIsBooleanList ==
    (parsed # NotRun /\ parsed[1] = "Ok") =>
        \A v \in ValuesOf(parsed[2]) : v.type # "BooleanList"


----------------------------------------------------------------------------
\* The place of the separator word in a group.

\* The tree of a child on its own.
ChildTree(c) == parse(c)[2]

ChildTrees(form) == [i \in DOMAIN form.children |-> ChildTree(form.children[i])]

\* The forms with the word after the first child, the same word or nothing
\* after each later child, and the same word or nothing before the closing
\* parenthesis.
PlacedForms(words) ==
    { f \in GroupForms :
        /\ f.keywords[1] \in words
        /\ \A i \in DOMAIN f.keywords : f.keywords[i] \in words \cup { <<" ">> }
        /\ f.closing \in words \cup { <<>>, <<" ">> } }

\* Each such text next to the result the placement rule gives it.
PlacedPairs ==
    { <<FormText(f), ParseOk(And(ChildTrees(f)))>> : f \in PlacedForms(AndWords) }
        \cup { <<FormText(f), ParseOk(Or(ChildTrees(f)))>> : f \in PlacedForms(OrWords) }

PlacedTexts == { p[1] : p \in PlacedPairs }

\* The texts of the forms with nothing but a space after the first child.
UnseparatedTexts == { FormText(f) : f \in { g \in GroupForms : g.keywords[1] = <<" ">> } }

\* Each two-child group with its spacings next to its result.
SpacedPairs ==
    { <<SpacedGroup(c[1], s[1], <<"A", "N", "D">>, s[2], c[2]),
        ParseOk(And(<<ChildTree(c[1]), ChildTree(c[2])>>))>> :
        c \in SpacedChildren, s \in Spacings \X Spacings }
    \cup
    { <<SpacedGroup(c[1], s[1], <<"O", "R">>, s[2], c[2]),
        ParseOk(Or(<<ChildTree(c[1]), ChildTree(c[2])>>))>> :
        c \in SpacedChildren, s \in Spacings \X Spacings }

\* The groups whose first child ends in a field name with the word written
\* right after it.
AbsorbedTexts ==
    { SpacedGroup(FieldEnded, <<>>, w, after, second) :
        w \in SeparatorWords, after \in Spacings, second \in ChildTexts }

\* The placement of the word, whatever the whitespace.
WordPlaced ==
    /\ text \in PlacedTexts => <<text, parsed>> \in PlacedPairs
    /\ text \in UnseparatedTexts => parsed[1] = "Err"

\* C25 (as claimed): a group parses to the And (Or) of its children when the
\* separator word stands after the first child and after any, or none, of
\* the later children, the last one included; without the word after the
\* first child it is a parse error; the whitespace on either side of the
\* word may always be empty.
C25_SpacingOptional ==
    parsed # NotRun =>
        /\ WordPlaced
        /\ text \in SpacedTexts => <<text, parsed>> \in SpacedPairs

\* C25 (amended): the same, except that the whitespace before the word may
\* be empty only after a child that does not end in a field name; after a
\* field name the word is read as part of the name and the group is a parse
\* error.
C25_SeparatorPlacement ==
    parsed # NotRun =>
        /\ WordPlaced
        /\ text \in SpacedTexts \ AbsorbedTexts => <<text, parsed>> \in SpacedPairs
        /\ text \in AbsorbedTexts => parsed[1] = "Err"

\* (a == 1 AND b != "x" AND), the word once more before the closing
\* parenthesis, has parsed to the And of its two children.
C25_Witness ==
    /\ text = <<"(", "a", " ", "=", "=", " ", "1", " ", "A", "N", "D", " ",
                "b", " ", "!", "=", " ", "\"", "x", "\"", " ", "A", "N", "D", ")">>
    /\ parsed # NotRun
    /\ parsed[1] = "Ok"
    /\ parsed[2].kind = "And"
    /\ Len(parsed[2].subs) = 2
    /\ parsed[2] = And(<<ChildTree(<<"a", " ", "=", "=", " ", "1">>),
                         ChildTree(<<"b", " ", "!", "=", " ", "\"", "x", "\"">>)>>)

\* (a == 1 AND b != "x" !(a == 1)), no word after the second child, has
\* parsed to an And of three children.
LaterWordOmitted ==
    /\ text = <<"(", "a", " ", "=", "=", " ", "1", " ", "A", "N", "D", " ",
                "b", " ", "!", "=", " ", "\"", "x", "\"", " ",
                "!", "(", "a", " ", "=", "=", " ", "1", ")", ")">>
    /\ parsed # NotRun
    /\ parsed[1] = "Ok"
    /\ parsed[2].kind = "And"
    /\ Len(parsed[2].subs) = 3

\* (a == 1ANDb != "x"), no whitespace on either side of the word, has
\* parsed to an And of two children.
WordUnspaced ==
    /\ text = <<"(", "a", " ", "=", "=", " ", "1", "A", "N", "D",
                "b", " ", "!", "=", " ", "\"", "x", "\"", ")">>
    /\ parsed # NotRun
    /\ parsed[1] = "Ok"
    /\ parsed[2].kind = "And"
    /\ Len(parsed[2].subs) = 2

\* (a == bAND b != "x") has been parsed and refused.
WordAbsorbed ==
    /\ text = SpacedGroup(FieldEnded, <<>>, <<"A", "N", "D">>, <<" ">>,
                          <<"b", " ", "!", "=", " ", "\"", "x", "\"">>)
    /\ parsed # NotRun
    /\ parsed[1] = "Err"


----------------------------------------------------------------------------
\* The digits of the fraction of a second, read and written.

\* The operations with an instant of one of the fractions on the right,
\* and those among them whose date and offset are well formed.
InstantOperations(fractions) ==
    { l \o <<" ", "=", "=", " ">> \o d \o f \o z :
        l \in LeftTexts, d \in DateTexts, f \in fractions, z \in ZoneTexts }

WellFormedInstants(fractions) ==
    { l \o <<" ", "=", "=", " ">> \o d \o f \o z :
        l \in LeftTexts,
        d \in { <<"1", "9", "9", "9", "-", "0", "7", "-", "1", "3", "T", "0", "1", ":", "0", "2", ":", "0", "3">>,
                <<"2", "0", "0", "0", "-", "0", "2", "-", "2", "9", "T", "2", "3", ":", "5", "9", ":", "5", "9">> },
        f \in fractions,
        z \in { <<"Z">>, <<"+", "0", "1", ":", "0", "0">>, <<"-", "0", "0", ":", "3", "0">> } }

\* By the number of their digits: 1 to 5, 4 or 5, and 6.
ReadTexts == WellFormedInstants({ f \in FractionTexts : Len(f) \in 2..6 })
LongTexts == InstantOperations({ f \in FractionTexts : Len(f) \in 5..6 })
SixDigitTexts == InstantOperations({ f \in FractionTexts : Len(f) = 7 })

\* The parse gave an operation with a DateTime on its right.
DateTimeParsed ==
    /\ parsed # NotRun
    /\ parsed[1] = "Ok"
    /\ parsed[2].kind = "Operation"
    /\ parsed[2].rhs[1] = "LiteralValue"
    /\ parsed[2].rhs[2].type = "DateTime"

\* Its sub-second part is a whole number of milliseconds.
WholeMillis == parsed[2].rhs[2].val.nanos % 1000000 = 0

\* The digits the serialized text has after the seconds: before the final Z
\* stand 3, 6 or 9 digits after a point, or none.
WrittenDigits ==
    LET n == Len(serialized)
    IN  IF n > 4 /\ serialized[n - 4] = "." THEN 3
        ELSE IF n > 7 /\ serialized[n - 7] = "." THEN 6
        ELSE IF n > 10 /\ serialized[n - 10] = "." THEN 9
        ELSE 0

\* What the claim's two halves share: fractions of 1 to 5 digits are read, a
\* sixth digit is refused, a sub-second part that is not zero is written
\* with 3, 6 or 9 digits, and exactly the instants of whole milliseconds
\* come back from the serialized text.
FractionRules ==
    /\ (text \in ReadTexts /\ parsed # NotRun) => DateTimeParsed
    /\ (text \in SixDigitTexts /\ parsed # NotRun) => parsed[1] = "Err"
    /\ (DateTimeParsed /\ serialized # NotRun) =>
          /\ serialized[Len(serialized)] = "Z"
          /\ WrittenDigits = 0 <=> parsed[2].rhs[2].val.nanos % 1000000000 = 0
          /\ WrittenDigits = 3 <=> (WholeMillis /\ parsed[2].rhs[2].val.nanos % 1000000000 # 0)
          /\ WrittenDigits = 6 <=> ~WholeMillis
    /\ (DateTimeParsed /\ reparsed # NotRun) =>
          /\ WholeMillis <=> reparsed = parsed
          /\ ~WholeMillis => reparsed[1] = "Err"

LongFractionKept ==
    /\ text = Compared(<<"1", "9", "9", "9", "-", "0", "7", "-", "1", "3", "T",
                         "0", "1", ":", "0", "2", ":", "0", "3", ".", "1", "2", "3", "0", "Z">>)
    /\ DateTimeParsed
    /\ serialized = Compared(<<"1", "9", "9", "9", "-", "0", "7", "-", "1", "3", "T",
                               "0", "1", ":", "0", "2", ":", "0", "3", ".", "1", "2", "3", "Z">>)
    /\ reparsed = parsed

====
